---- MODULE Spec2Model ----
(***************************************************************************)
(* Team generation of the SK Cechoslovan Herink portal.                    *)
(*                                                                         *)
(* The model follows DatabaseStorage.generateTeams (the size planner, the  *)
(* bench slice, the seeds, the greedy loop, the repair pass and the write  *)
(* of the id lists) and the route POST /api/games/:id/generate-teams that  *)
(* calls it.  Skills are integers; the composite strength and its size     *)
(* normalisation are IEEE-754 binary64 values, computed with the rounding  *)
(* of the JavaScript number type so that ties fall as they do at run time. *)
(***************************************************************************)
EXTENDS Integers, Sequences, FiniteSets

(***************************************************************************)
(* Bounds of the model.                                                    *)
(***************************************************************************)
MaxPlayers == 30
MaxGhosts == 8
NumProfiles == 4
MaxRequests == 2
MaxUnregisters == 1
RepairPlayers == 4
MaxConcurrent == 13
MaxUiPlayers == 9
MaxClientPlayers == 7
MaxRegCalls == 3
ResultPlayers == 2

(***************************************************************************)
(* Constants of the program.                                               *)
(***************************************************************************)
MinRegistered == 8
maxTeamSize == 9
preferredTeamSize == 6

\* The games table holds one game; requests may name a game that is not there.
GameIds == {1}
RequestedIds == {1, 2}
\* The players whose unregistration is requested.
UnregisteredIds == {1, MaxPlayers + 1}

VARIABLES
    players,          \* the players table, in the order getPlayers returns it
    registrations,    \* the registrations table
    game,             \* the stored whiteTeam, blackTeam, benchPlayers of the game
    pc,               \* position of the request being served
    requests,         \* number of requests served so far
    unregisters,      \* number of unregistrations served so far
    playerIds,        \* generateTeams: player ids of the going registrations
    goingPlayers,     \* generateTeams: the players of those ids, in table order
    sortedPlayers,    \* generateTeams: going players, highest overallSkill first
    playersPerTeam1,
    playersPerTeam2,
    benchCount,
    benchPlayers,
    whiteTeam,
    blackTeam,
    remainingPlayers,
    error,            \* the exception thrown, "none" when there is none
    teams,            \* what generateTeams returned, NoTeams when nothing
    response,         \* status the route answered with, 0 while unanswered
    gameBefore,       \* history: the stored teams when the request arrived
    firstRun,         \* history: input and outcome of the first request
    phase,            \* repair pass: the block being executed
    moves,            \* history: moves made by the repair pass
    startTeams,       \* history: the lists the repair pass started from
    procs,            \* concurrent requests: position and locals of each
    ui,               \* the state of a TeamGenerator component and its queries
    generatedFrom,    \* history: the going ids the stored teams were made from
    client,           \* a call of the client's generateBalancedTeams
    reg,              \* registerPlayer calls in flight and the id sequence
    res               \* the played game, game_results and the requests on them

vars == <<players, registrations, game, pc, requests, unregisters, playerIds, goingPlayers,
          sortedPlayers, playersPerTeam1, playersPerTeam2, benchCount, benchPlayers,
          whiteTeam, blackTeam, remainingPlayers, error, teams, response,
          gameBefore, firstRun, phase, moves, startTeams, procs, ui, generatedFrom,
          client, reg, res>>

(***************************************************************************)
(* Players.  undefined stands for the value JavaScript yields when an      *)
(* array is read past its end.                                             *)
(***************************************************************************)
undefined ==
    [id |-> 0, overallSkill |-> 0, offenseSkill |-> 0, defenseSkill |-> 0,
     ballHandlingSkill |-> 0]

Scenario13 == <<9, 8, 7, 6, 6, 5, 5, 4, 4, 3, 3, 2, 1>>
Scenario2 == <<10, 1>>

\* The skills of player i under skill profile p, each in 1..10.
Player(p, i) ==
    IF p = 1 THEN
        [id |-> i, overallSkill |-> 5, offenseSkill |-> 5, defenseSkill |-> 5,
         ballHandlingSkill |-> 5]
    ELSE IF p = 2 THEN
        LET s == IF i <= Len(Scenario13) THEN Scenario13[i] ELSE 1 + ((3 * i) % 10)
        IN  [id |-> i, overallSkill |-> s, offenseSkill |-> s, defenseSkill |-> s,
             ballHandlingSkill |-> s]
    ELSE IF p = 3 THEN
        LET s == IF i <= Len(Scenario2) THEN Scenario2[i] ELSE 1 + (i % 10)
        IN  [id |-> i, overallSkill |-> s, offenseSkill |-> s, defenseSkill |-> s,
             ballHandlingSkill |-> s]
    ELSE
        [id |-> i,
         overallSkill |-> 1 + ((i * p + p * p) % 10),
         offenseSkill |-> 1 + ((2 * i + p) % 10),
         defenseSkill |-> 1 + ((3 * i + 1) % 10),
         ballHandlingSkill |-> 1 + ((7 * i + 2 * p) % 10)]

Max(a, b) == IF a >= b THEN a ELSE b
Abs(x) == IF x < 0 THEN -x ELSE x
Range(s) == {s[i] : i \in 1..Len(s)}
Ids(s) == [i \in 1..Len(s) |-> s[i].id]

\* Array.prototype.slice(from) and slice(0, to), with 0-based arguments.
SliceFrom(s, from) == IF from >= Len(s) THEN <<>> ELSE SubSeq(s, from + 1, Len(s))
SliceTo(s, to) == IF to >= Len(s) THEN s ELSE SubSeq(s, 1, to)
At(s, i) == IF i + 1 <= Len(s) THEN s[i + 1] ELSE undefined
Splice(s, i) == SubSeq(s, 1, i - 1) \o SubSeq(s, i + 1, Len(s))

(***************************************************************************)
(* generateTeams: the sort, the size planner and the slices.               *)
(***************************************************************************)

\* Mutant of Rank: players of equal skill come out in the opposite order.
RankTiesReversed(s, i) ==
    1 + Cardinality({j \in 1..Len(s) : s[j].overallSkill > s[i].overallSkill})
      + Cardinality({j \in (i + 1)..Len(s) : s[j].overallSkill = s[i].overallSkill})

\* sort((a, b) => b.overallSkill - a.overallSkill): highest first; the sort is
\* stable, so equal skills keep their order.  Rank(s, i) is the place of s[i].
Rank(s, i) ==
    1 + Cardinality({j \in 1..Len(s) : s[j].overallSkill > s[i].overallSkill})
      + Cardinality({j \in 1..(i - 1) : s[j].overallSkill = s[i].overallSkill})

SortDescending(s) ==
    [k \in 1..Len(s) |-> s[CHOOSE i \in 1..Len(s) : Rank(s, i) = k]]

\* The going registrations of the game, as player ids.
GoingPlayerIds(regs, gameId) ==
    LET going == SelectSeq(regs, LAMBDA r : r.gameId = gameId /\ r.status = "going")
    IN  [i \in 1..Len(going) |-> going[i].playerId]

\* unregisterPlayer: the rows of the player for the game are deleted.
Unregistered(regs, gameId, playerId) ==
    SelectSeq(regs, LAMBDA r : ~(r.gameId = gameId /\ r.playerId = playerId))

\* Mutant of TooFewRegistered: the minimum of 2 the specification names.
TooFewRegisteredBelowTwo(ids) == Len(ids) < 2

\* Mutant of TooFewRegistered: only the empty roster is refused.
TooFewRegisteredEmpty(ids) == Len(ids) < 1

\* The minimum check: true when generateTeams throws.
TooFewRegistered(ids) == Len(ids) < MinRegistered

\* registeredPlayers.filter(player => playerIds.includes(player.id))
GoingPlayers(table, ids) ==
    SelectSeq(table, LAMBDA p : p.id \in Range(ids))

\* Mutant of EveryonePlays: the odd player is counted twice for the first team.
EveryonePlaysLopsided(totalPlayers) ==
    [team1 |-> ((totalPlayers + 1) \div 2) + (totalPlayers % 2),
     team2 |-> totalPlayers - (((totalPlayers + 1) \div 2) + (totalPlayers % 2)),
     bench |-> 0]

\* The size planner, band by band.  Up to 12 players everyone plays.
EveryonePlays(totalPlayers) ==
    [team1 |-> (totalPlayers + 1) \div 2,
     team2 |-> totalPlayers - ((totalPlayers + 1) \div 2),
     bench |-> 0]

\* Mutant of ThirteenOrFourteen: 13 players all play, 7 against 6.
ThirteenAllPlay(totalPlayers) ==
    IF totalPlayers = 14 THEN [team1 |-> 7, team2 |-> 7, bench |-> 0]
    ELSE [team1 |-> 7, team2 |-> totalPlayers - 7, bench |-> 0]

\* 13 players: 6 against 6 and a bench.  14 players: 7 against 7.
ThirteenOrFourteen(totalPlayers) ==
    IF totalPlayers = 14 THEN [team1 |-> 7, team2 |-> 7, bench |-> 0]
    ELSE [team1 |-> preferredTeamSize, team2 |-> preferredTeamSize,
          bench |-> totalPlayers - (preferredTeamSize + preferredTeamSize)]

\* 15 to 17 players: no bench, the second team takes the odd player.
FifteenToSeventeen(totalPlayers) ==
    IF totalPlayers % 2 = 0
    THEN [team1 |-> totalPlayers \div 2, team2 |-> totalPlayers \div 2, bench |-> 0]
    ELSE [team1 |-> totalPlayers \div 2, team2 |-> (totalPlayers + 1) \div 2,
          bench |-> 0]

\* Mutant of EighteenAndMore: the bench is what one team leaves over.
EighteenAndMoreShortBench(totalPlayers) ==
    IF totalPlayers <= maxTeamSize * 2
    THEN [team1 |-> totalPlayers \div 2, team2 |-> (totalPlayers + 1) \div 2,
          bench |-> 0]
    ELSE [team1 |-> maxTeamSize, team2 |-> maxTeamSize,
          bench |-> totalPlayers - (maxTeamSize + maxTeamSize) + 1]

\* 18 players and more: at most maxTeamSize per team, the rest on the bench.
EighteenAndMore(totalPlayers) ==
    IF totalPlayers <= maxTeamSize * 2
    THEN [team1 |-> totalPlayers \div 2, team2 |-> (totalPlayers + 1) \div 2,
          bench |-> 0]
    ELSE [team1 |-> maxTeamSize, team2 |-> maxTeamSize,
          bench |-> totalPlayers - (maxTeamSize + maxTeamSize)]

\* The size planner: players per team and bench for totalPlayers.
SizePlan(totalPlayers) ==
    IF totalPlayers <= 10 THEN EveryonePlays(totalPlayers)
    ELSE IF totalPlayers <= 12 THEN EveryonePlays(totalPlayers)
    ELSE IF totalPlayers <= 14 THEN ThirteenOrFourteen(totalPlayers)
    ELSE IF totalPlayers <= 17 THEN FifteenToSeventeen(totalPlayers)
    ELSE EighteenAndMore(totalPlayers)

\* sortedPlayers.slice(0, totalActivePlayers), sliced once more before seeding.
ActivePlayers(sorted, totalActive) == SliceTo(SliceTo(sorted, totalActive), totalActive)

\* Mutant of BenchPlayers: the bench is cut from the head of the ranking.
BenchPlayersFromTop(sorted, totalActive) == SliceTo(sorted, Len(sorted) - totalActive)

\* Mutant of BenchPlayers: the slice starts one place too far.
BenchPlayersSkipOne(sorted, totalActive) == SliceFrom(sorted, totalActive + 1)

\* sortedPlayers.slice(totalActivePlayers)
BenchPlayers(sorted, totalActive) == SliceFrom(sorted, totalActive)

\* Mutant of RemainingPlayers: every other request deals the players in the
\* opposite order, the way a generator that varies its teams would.
RemainingPlayersVaried(active) ==
    LET rest == SortDescending(SliceFrom(active, 2))
    IN  IF requests % 2 = 1 THEN rest
        ELSE [i \in 1..Len(rest) |-> rest[Len(rest) + 1 - i]]

\* actualActivePlayers.slice(2), sorted again.
RemainingPlayers(active) == SortDescending(SliceFrom(active, 2))

(***************************************************************************)
(* generateTeams: the greedy loop.                                         *)
(***************************************************************************)
RECURSIVE SumOf(_, _)
SumOf(team, field) ==
    IF team = <<>> THEN 0 ELSE Head(team)[field] + SumOf(Tail(team), field)

calculateTeamSkill(team) == SumOf(team, "overallSkill")

(***************************************************************************)
(* JavaScript numbers are IEEE 754 doubles.  A double d >= 0 below 1024 is *)
(* kept as <<a, b, c>>, three limbs of 21 bits, with                       *)
(* d = (a * 2^42 + b * 2^21 + c) * 2^-53; every operation rounds its exact *)
(* result to 53 significant bits, to nearest, ties to even.                *)
(***************************************************************************)
Limb == 2^21

\* The literals 0.8 and 0.6 as doubles.
Double08 == <<1638, 838860, 1677722>>
Double06 == <<1228, 1677721, 1258291>>

DoubleOf(n) == <<n * (2^11), 0, 0>>

Carry(a, b, c) ==
    LET b1 == b + (c \div Limb)
    IN  <<a + (b1 \div Limb), b1 % Limb, c % Limb>>

RECURSIVE BitLength(_)
BitLength(n) == IF n = 0 THEN 0 ELSE 1 + BitLength(n \div 2)

\* x rounded to 53 significant bits; sticky tells that the exact value lies
\* above x by less than one unit of the last limb.
RoundDouble(x, sticky) ==
    LET sh == BitLength(x[1]) - 11
    IN  IF sh <= 0 THEN x
        ELSE LET low == x[3] % (2^sh)
                 half == 2^(sh - 1)
                 odd == (x[3] \div (2^sh)) % 2 = 1
                 up == low > half \/ (low = half /\ (sticky \/ odd))
             IN  IF up THEN Carry(x[1], x[2], x[3] - low + 2^sh)
                 ELSE <<x[1], x[2], x[3] - low>>

\* x * n, x + y and x / n for doubles x, y and an integer n.
DoubleTimes(x, n) == RoundDouble(Carry(x[1] * n, x[2] * n, x[3] * n), FALSE)
DoublePlus(x, y) == RoundDouble(Carry(x[1] + y[1], x[2] + y[2], x[3] + y[3]), FALSE)
DoubleOver(x, n) ==
    LET qa == x[1] \div n
        ra == x[1] % n
        qb == (ra * Limb + x[2]) \div n
        rb == (ra * Limb + x[2]) % n
        qc == (rb * Limb + x[3]) \div n
        rc == (rb * Limb + x[3]) % n
    IN  RoundDouble(<<qa, qb, qc>>, rc # 0)

DoubleLeq(x, y) ==
    \/ x[1] < y[1]
    \/ x[1] = y[1] /\ x[2] < y[2]
    \/ x[1] = y[1] /\ x[2] = y[2] /\ x[3] <= y[3]

\* whiteStrength / blackStrength: skill + offense * 0.8 + defense * 0.8
\* + ballHandling * 0.6, added from left to right.
TeamStrength(team) ==
    DoublePlus(
        DoublePlus(
            DoublePlus(DoubleOf(calculateTeamSkill(team)),
                       DoubleTimes(Double08, SumOf(team, "offenseSkill"))),
            DoubleTimes(Double08, SumOf(team, "defenseSkill"))),
        DoubleTimes(Double06, SumOf(team, "ballHandlingSkill")))

\* whiteSizeAdjusted / blackSizeAdjusted
SizeAdjusted(team) == DoubleOver(TeamStrength(team), Max(1, Len(team)))

\* whiteSizeAdjusted <= blackSizeAdjusted
WhiteNotStronger(white, black) == DoubleLeq(SizeAdjusted(white), SizeAdjusted(black))

\* Mutant of GreedyTarget: the size priority is missing, the weaker team
\* takes the player whatever the sizes are.
GreedyTargetNoThrottle(white, black, perTeam1, perTeam2) ==
    IF Len(white) >= perTeam1 THEN "black"
    ELSE IF Len(black) >= perTeam2 THEN "white"
    ELSE IF WhiteNotStronger(white, black) THEN "white"
    ELSE "black"

\* Mutant of GreedyTarget: a team counts as full one player late.
GreedyTargetLateCaps(white, black, perTeam1, perTeam2) ==
    IF Len(white) > perTeam1 THEN "black"
    ELSE IF Len(black) > perTeam2 THEN "white"
    ELSE IF Abs(Len(white) - Len(black)) >= 2 THEN
        IF Len(white) < Len(black) THEN "white" ELSE "black"
    ELSE IF WhiteNotStronger(white, black) THEN "white"
    ELSE "black"

\* Mutant of GreedyTarget: the two checks of a full team are missing.
GreedyTargetNoCaps(white, black, perTeam1, perTeam2) ==
    IF Abs(Len(white) - Len(black)) >= 2 THEN
        IF Len(white) < Len(black) THEN "white" ELSE "black"
    ELSE IF WhiteNotStronger(white, black) THEN "white"
    ELSE "black"

\* The team the loop pushes the next player to.
GreedyTarget(white, black, perTeam1, perTeam2) ==
    IF Len(white) >= perTeam1 THEN "black"
    ELSE IF Len(black) >= perTeam2 THEN "white"
    ELSE IF Abs(Len(white) - Len(black)) >= 2 THEN
        IF Len(white) < Len(black) THEN "white" ELSE "black"
    ELSE IF WhiteNotStronger(white, black) THEN "white"
    ELSE "black"

RECURSIVE GreedyLoop(_, _, _, _, _)
\* for (const player of remainingPlayers) { ... } from the two seeded teams.
GreedyLoop(white, black, remaining, perTeam1, perTeam2) ==
    IF remaining = <<>> THEN [white |-> white, black |-> black]
    ELSE IF GreedyTarget(white, black, perTeam1, perTeam2) = "white"
    THEN GreedyLoop(Append(white, Head(remaining)), black, Tail(remaining),
                    perTeam1, perTeam2)
    ELSE GreedyLoop(white, Append(black, Head(remaining)), Tail(remaining),
                    perTeam1, perTeam2)

(***************************************************************************)
(* generateTeams: the repair pass.  Its four blocks run in order; each     *)
(* block moves one player at a time while its loop condition holds.        *)
(***************************************************************************)
\* team.map((p, i) => ({index: i, skill: p.overallSkill})) throws a TypeError
\* when an entry of the team is undefined.
MapThrows(team) == \E i \in 1..Len(team) : team[i] = undefined

\* Mutant of LowestIndex: the member at the head of the team is taken.
LowestIndexFirst(team) == 1

\* .sort((a, b) => a.skill - b.skill)[0].index, as a 1-based index.
LowestIndex(team) ==
    CHOOSE i \in 1..Len(team) :
        /\ \A j \in 1..Len(team) : team[i].overallSkill <= team[j].overallSkill
        /\ \A j \in 1..(i - 1) : team[j].overallSkill > team[i].overallSkill

\* .sort((a, b) => b.skill - a.skill)[0].index, as a 1-based index.
HighestIndex(team) ==
    CHOOSE i \in 1..Len(team) :
        /\ \A j \in 1..Len(team) : team[i].overallSkill >= team[j].overallSkill
        /\ \A j \in 1..(i - 1) : team[j].overallSkill < team[i].overallSkill

\* Mutant of MovePlayer: the player is pushed but not spliced out.
MovePlayerNoSplice(from, to, index) ==
    [from |-> from, to |-> Append(to, from[index])]

\* to.push(from.splice(index, 1)[0])
MovePlayer(from, to, index) ==
    [from |-> Splice(from, index), to |-> Append(to, from[index])]

\* The loop condition of each block.
BlockActive(ph, white, black, perTeam1, perTeam2) ==
    IF ph = "underWhite" THEN Len(white) < perTeam1 /\ Len(black) > perTeam2
    ELSE IF ph = "underBlack" THEN Len(black) < perTeam2 /\ Len(white) > perTeam1
    ELSE IF ph = "overWhite" THEN Len(white) > perTeam1
    ELSE IF ph = "overBlack" THEN Len(black) > perTeam2
    ELSE FALSE

NextPhase(ph) ==
    IF ph = "underWhite" THEN "underBlack"
    ELSE IF ph = "underBlack" THEN "overWhite"
    ELSE IF ph = "overWhite" THEN "overBlack"
    ELSE "done"

\* One step of the repair pass from st = [white, black, phase, error, moves]:
\* one move of the current block, or the passage to the next block.
RepairStep(st, perTeam1, perTeam2) ==
    IF ~BlockActive(st.phase, st.white, st.black, perTeam1, perTeam2) THEN
        [st EXCEPT !.phase = NextPhase(st.phase)]
    ELSE IF st.phase \in {"underWhite", "overBlack"} THEN
        IF MapThrows(st.black) THEN [st EXCEPT !.error = "TypeError"]
        ELSE LET i == IF st.phase = "underWhite" THEN LowestIndex(st.black)
                      ELSE HighestIndex(st.black)
                 m == MovePlayer(st.black, st.white, i)
             IN  [st EXCEPT !.white = m.to, !.black = m.from, !.moves = @ + 1]
    ELSE
        IF MapThrows(st.white) THEN [st EXCEPT !.error = "TypeError"]
        ELSE LET i == IF st.phase = "underBlack" THEN LowestIndex(st.white)
                      ELSE HighestIndex(st.white)
                 m == MovePlayer(st.white, st.black, i)
             IN  [st EXCEPT !.white = m.from, !.black = m.to, !.moves = @ + 1]

RECURSIVE RepairFrom(_, _, _)
\* The repair pass run to its end or to the exception.
RepairFrom(st, perTeam1, perTeam2) ==
    IF st.phase = "done" \/ st.error # "none" THEN st
    ELSE RepairFrom(RepairStep(st, perTeam1, perTeam2), perTeam1, perTeam2)

RepairPass(white, black, perTeam1, perTeam2) ==
    RepairFrom([white |-> white, black |-> black, phase |-> "underWhite",
                error |-> "none", moves |-> 0], perTeam1, perTeam2)

(***************************************************************************)
(* generateTeams: the id lists written to the game.                        *)
(***************************************************************************)
RECURSIVE removeDuplicateIds(_)
\* ids.filter((id, index) => ids.indexOf(id) === index)
removeDuplicateIds(ids) ==
    IF ids = <<>> THEN <<>>
    ELSE LET front == removeDuplicateIds(SubSeq(ids, 1, Len(ids) - 1))
             last == ids[Len(ids)]
         IN  IF last \in Range(front) THEN front ELSE Append(front, last)

StoredTeams(white, black, bench) ==
    [whiteTeam |-> removeDuplicateIds(Ids(white)),
     blackTeam |-> removeDuplicateIds(Ids(black)),
     benchPlayers |-> removeDuplicateIds(Ids(bench))]

\* Mutant of RouteTeams: the route saves the two teams and leaves the stored
\* bench alone, as the component's own save of the teams does.
RouteTeamsKeepBench(t) ==
    [whiteTeam |-> Ids(t.whiteTeam), blackTeam |-> Ids(t.blackTeam),
     benchPlayers |-> game.benchPlayers]

\* The route's own updateGame with the ids of the returned players.
RouteTeams(t) ==
    [whiteTeam |-> Ids(t.whiteTeam), blackTeam |-> Ids(t.blackTeam),
     benchPlayers |-> Ids(t.benchPlayers)]

\* Mutant of RouteStatus: the catch block answers like a success.
RouteStatusAlwaysOk(err) == 200

\* The status the route answers with: 200 with the teams, 500 from the catch.
RouteStatus(err) == IF err = "none" THEN 200 ELSE 500

NoTeams == [whiteTeam |-> <<>>, blackTeam |-> <<>>, benchPlayers |-> <<>>,
            returned |-> FALSE]
NoRun == [run |-> FALSE]

(***************************************************************************)
(* The database a request finds.  k players of the table have a going      *)
(* registration for the game; ghosts further going registrations name      *)
(* players that are not in the table (POST /api/registrations stores any   *)
(* player id); one player has declined; one registration is for another    *)
(* game.                                                                   *)
(***************************************************************************)
PlayerTable(profile, ascending) ==
    [i \in 1..MaxPlayers |->
        Player(profile, IF ascending THEN i ELSE MaxPlayers + 1 - i)]

Registration(n, playerId, gameId, status) ==
    [id |-> n, playerId |-> playerId, gameId |-> gameId, status |-> status]

RegistrationTable(k, ghosts) ==
    [n \in 1..(k + ghosts + 2) |->
        IF n <= k THEN Registration(n, n, 1, "going")
        ELSE IF n <= k + ghosts THEN Registration(n, MaxPlayers + (n - k), 1, "going")
        ELSE IF n = k + ghosts + 1
             THEN Registration(n, k + 1, 1, "not_going")
        ELSE Registration(n, MaxPlayers, 2, "going")]

EmptyGame == [whiteTeam |-> <<>>, blackTeam |-> <<>>, benchPlayers |-> <<>>]

\* generateTeams up to the end of the greedy loop: the plan, the bench and the
\* two lists the loop leaves.
LoopEnd(table, ids) ==
    LET sorted == SortDescending(GoingPlayers(table, ids))
        plan == SizePlan(Len(sorted))
        totalActivePlayers == plan.team1 + plan.team2
        active == ActivePlayers(sorted, totalActivePlayers)
        loop == GreedyLoop(<<At(active, 0)>>, <<At(active, 1)>>,
                           RemainingPlayers(active), plan.team1, plan.team2)
    IN  [white |-> loop.white, black |-> loop.black, plan |-> plan,
         bench |-> BenchPlayers(sorted, totalActivePlayers)]

\* generateTeams from the ids of the going registrations to what it returns
\* or throws, the awaited reads and the write left to the caller.
generateTeams(table, ids) ==
    IF TooFewRegistered(ids)
    THEN [teams |-> NoTeams, error |-> "AtLeast8Players"]
    ELSE LET end == LoopEnd(table, ids)
             st == RepairPass(end.white, end.black, end.plan.team1, end.plan.team2)
         IN  IF st.error # "none"
                \/ MapThrows(st.white) \/ MapThrows(st.black) \/ MapThrows(end.bench)
             THEN [teams |-> NoTeams, error |-> "TypeError"]
             ELSE [teams |-> [whiteTeam |-> st.white, blackTeam |-> st.black,
                              benchPlayers |-> end.bench, returned |-> TRUE],
                   error |-> "none"]

\* The two requests of the concurrent specification.
Requests == {1, 2}

\* A request that has not arrived yet.
ProcIdle ==
    [pc |-> "idle", playerIds |-> <<>>, teams |-> NoTeams, error |-> "none",
     response |-> 0]

\* useState initial values of TeamGenerator; the queries hold no data.
UiUnmounted ==
    [mounted |-> FALSE,
     goingPlayerIds |-> <<>>,
     teams |-> EmptyGame,
     game |-> EmptyGame,
     teamsGenerated |-> FALSE,
     originalPlayerIds |-> <<>>,
     showTeamUpdateNotification |-> FALSE,
     showEarlyGenerationDialog |-> FALSE,
     isPending |-> FALSE,
     requestedWith |-> <<>>]

\* generateBalancedTeams has not been called.
ClientIdle ==
    [pc |-> "idle", missing |-> FALSE, players |-> <<>>, sortedPlayers |-> <<>>,
     index |-> 0, whiteTeam |-> <<>>, blackTeam |-> <<>>, whiteTeamSkill |-> 0,
     blackTeamSkill |-> 0, i |-> 0, swaps |-> 0,
     result |-> [whiteTeam |-> <<>>, blackTeam |-> <<>>]]

\* The callers of registerPlayer and unregisterPlayer.
Callers == {1, 2}

\* A caller with no registerPlayer call in flight.
CallIdle == [pc |-> "idle", registration |-> <<>>, existingReg |-> <<>>]

\* No registerPlayer call in flight; serial is the last id of the sequence
\* behind registrations.id.
RegIdle == [calls |-> [c \in Callers |-> CallIdle], serial |-> 0, started |-> 0]

\* The PATCH /api/games/:id requests that mark the game as played.
Patchers == {1, 2}

\* A call of recordGameResults that has not started.
RecordIdle ==
    [pc |-> "idle", depth |-> 0, whiteTeamIds |-> <<>>, blackTeamIds |-> <<>>,
     benchPlayerIds |-> <<>>, todo |-> <<>>, scores |-> <<>>]

\* A PATCH request that has not arrived.
PatchIdle == [pc |-> "idle", isCompletingGame |-> FALSE, rec |-> RecordIdle]

\* A game that has not been played, an empty game_results table (the rows
\* without their id and createdAt, which nothing reads), no request.
\* scores is <<whiteTeamScore, blackTeamScore>>, <<>> while both are null;
\* teamsNull tells that the white_team and black_team columns are null.
ResIdle ==
    [wasPlayed |-> FALSE, isArchived |-> FALSE, scores |-> <<>>, teamsNull |-> TRUE,
     body |-> <<>>, gameResults |-> <<>>,
     patches |-> [p \in Patchers |-> PatchIdle],
     reset |-> FALSE, asked |-> FALSE,
     teamsResponse |-> [whiteTeam |-> <<>>, blackTeam |-> <<>>, benchPlayers |-> <<>>]]

\* The state of the operations that have a specification of their own.
Apart == <<client, reg, res>>

ApartIdle == client = ClientIdle /\ reg = RegIdle /\ res = ResIdle

Others == <<procs, ui, generatedFrom, Apart>>

\* No concurrent request and no component: the state of the other
\* specifications while one request is followed step by step.
OthersIdle ==
    /\ procs = [r \in Requests |-> ProcIdle]
    /\ ui = UiUnmounted
    /\ generatedFrom = <<>>
    /\ ApartIdle

RequestIdle ==
    /\ pc = "idle"
    /\ playerIds = <<>>
    /\ goingPlayers = <<>>
    /\ sortedPlayers = <<>>
    /\ playersPerTeam1 = 0
    /\ playersPerTeam2 = 0
    /\ benchCount = 0
    /\ benchPlayers = <<>>
    /\ whiteTeam = <<>>
    /\ blackTeam = <<>>
    /\ remainingPlayers = <<>>
    /\ error = "none"
    /\ teams = NoTeams
    /\ response = 0
    /\ phase = "none"
    /\ moves = 0
    /\ startTeams = [white |-> <<>>, black |-> <<>>]

Init ==
    /\ \E profile \in 1..NumProfiles, ascending \in BOOLEAN :
            players = PlayerTable(profile, ascending)
    /\ \E k \in 0..MaxPlayers, ghosts \in 0..MaxGhosts :
            /\ ghosts = 0 \/ k + ghosts \in (MinRegistered - 1)..MinRegistered
            /\ registrations = RegistrationTable(k, ghosts)
    /\ game = EmptyGame
    /\ requests = 0
    /\ unregisters = 0
    /\ gameBefore = EmptyGame
    /\ firstRun = NoRun
    /\ RequestIdle
    /\ OthersIdle

(***************************************************************************)
(* POST /api/games/:id/generate-teams                                      *)
(***************************************************************************)
Locals == <<playerIds, goingPlayers, sortedPlayers, playersPerTeam1, playersPerTeam2,
            benchCount, benchPlayers, whiteTeam, blackTeam, remainingPlayers>>
Tables == <<players, registrations>>
History == <<gameBefore, firstRun, unregisters>>
RepairVars == <<phase, moves, startTeams>>

\* The route looks the game up and answers 404 when it is not there.
RouteGetGame(id) ==
    /\ pc = "idle"
    /\ requests < MaxRequests
    /\ requests' = requests + 1
    /\ gameBefore' = game
    /\ IF id \in GameIds
       THEN pc' = "selectRegistrations" /\ response' = 0
       ELSE pc' = "answered" /\ response' = 404
    /\ UNCHANGED <<Others, Tables, game, unregisters, Locals, error, teams, firstRun,
                   RepairVars>>

SelectRegistrations ==
    /\ pc = "selectRegistrations"
    /\ playerIds' = GoingPlayerIds(registrations, 1)
    /\ pc' = "checkMinimum"
    /\ UNCHANGED <<Others, Tables, game, requests, goingPlayers, sortedPlayers,
                   playersPerTeam1, playersPerTeam2, benchCount, benchPlayers,
                   whiteTeam, blackTeam, remainingPlayers, error, teams, response,
                   History, RepairVars>>

CheckMinimum ==
    /\ pc = "checkMinimum"
    /\ IF TooFewRegistered(playerIds)
       THEN error' = "AtLeast8Players" /\ pc' = "catch"
       ELSE error' = error /\ pc' = "getPlayers"
    /\ UNCHANGED <<Others, Tables, game, requests, Locals, teams, response, History,
                   RepairVars>>

GetPlayers ==
    /\ pc = "getPlayers"
    /\ goingPlayers' = GoingPlayers(players, playerIds)
    /\ sortedPlayers' = SortDescending(goingPlayers')
    /\ pc' = "planSizes"
    /\ UNCHANGED <<Others, Tables, game, requests, playerIds, playersPerTeam1,
                   playersPerTeam2, benchCount, benchPlayers, whiteTeam, blackTeam,
                   remainingPlayers, error, teams, response, History, RepairVars>>

PlanSizes ==
    /\ pc = "planSizes"
    /\ LET plan == SizePlan(Len(sortedPlayers))
       IN  /\ playersPerTeam1' = plan.team1
           /\ playersPerTeam2' = plan.team2
           /\ benchCount' = plan.bench
    /\ pc' = "seed"
    /\ UNCHANGED <<Others, Tables, game, requests, playerIds, goingPlayers, sortedPlayers,
                   benchPlayers, whiteTeam, blackTeam, remainingPlayers, error,
                   teams, response, History, RepairVars>>

\* Mutant of SeedTeams: the two seeds are pushed to the wrong teams.
SeedTeamsSwapped ==
    /\ pc = "seed"
    /\ LET totalActivePlayers == playersPerTeam1 + playersPerTeam2
           active == ActivePlayers(sortedPlayers, totalActivePlayers)
       IN  /\ benchPlayers' = BenchPlayers(sortedPlayers, totalActivePlayers)
           /\ whiteTeam' = <<At(active, 1)>>
           /\ blackTeam' = <<At(active, 0)>>
           /\ remainingPlayers' = RemainingPlayers(active)
    /\ pc' = "greedy"
    /\ UNCHANGED <<Others, Tables, game, requests, playerIds, goingPlayers,
                   sortedPlayers, playersPerTeam1, playersPerTeam2, benchCount, error,
                   teams, response, History, RepairVars>>

\* The slices, the two seeds and the players left for the loop.
SeedTeams ==
    /\ pc = "seed"
    /\ LET totalActivePlayers == playersPerTeam1 + playersPerTeam2
           active == ActivePlayers(sortedPlayers, totalActivePlayers)
       IN  /\ benchPlayers' = BenchPlayers(sortedPlayers, totalActivePlayers)
           /\ whiteTeam' = <<At(active, 0)>>
           /\ blackTeam' = <<At(active, 1)>>
           /\ remainingPlayers' = RemainingPlayers(active)
    /\ pc' = "greedy"
    /\ UNCHANGED <<Others, Tables, game, requests, playerIds, goingPlayers, sortedPlayers,
                   playersPerTeam1, playersPerTeam2, benchCount, error, teams,
                   response, History, RepairVars>>

\* One iteration of the loop over remainingPlayers.
GreedyAssign ==
    /\ pc = "greedy"
    /\ remainingPlayers # <<>>
    /\ LET player == Head(remainingPlayers)
       IN  IF GreedyTarget(whiteTeam, blackTeam, playersPerTeam1, playersPerTeam2)
                = "white"
           THEN whiteTeam' = Append(whiteTeam, player) /\ blackTeam' = blackTeam
           ELSE blackTeam' = Append(blackTeam, player) /\ whiteTeam' = whiteTeam
    /\ remainingPlayers' = Tail(remainingPlayers)
    /\ UNCHANGED <<Others, Tables, game, requests, pc, playerIds, goingPlayers,
                   sortedPlayers, playersPerTeam1, playersPerTeam2, benchCount,
                   benchPlayers, error, teams, response, History, RepairVars>>

\* The repair pass after the loop, run to its end or to its exception.
Repair ==
    /\ pc = "greedy"
    /\ remainingPlayers = <<>>
    /\ LET st == RepairPass(whiteTeam, blackTeam, playersPerTeam1, playersPerTeam2)
       IN  /\ whiteTeam' = st.white
           /\ blackTeam' = st.black
           /\ moves' = st.moves
           /\ error' = st.error
           /\ pc' = IF st.error = "none" THEN "persist" ELSE "catch"
    /\ startTeams' = [white |-> whiteTeam, black |-> blackTeam]
    /\ UNCHANGED <<Others, Tables, game, requests, playerIds, goingPlayers, sortedPlayers,
                   playersPerTeam1, playersPerTeam2, benchCount, benchPlayers,
                   remainingPlayers, teams, response, History, phase>>

\* The id lists are written to the game and the players are returned;
\* reading the id of an undefined entry throws.
Persist ==
    /\ pc = "persist"
    /\ IF MapThrows(whiteTeam) \/ MapThrows(blackTeam) \/ MapThrows(benchPlayers)
       THEN /\ error' = "TypeError"
            /\ pc' = "catch"
            /\ UNCHANGED <<game, teams>>
       ELSE /\ game' = StoredTeams(whiteTeam, blackTeam, benchPlayers)
            /\ teams' = [whiteTeam |-> whiteTeam, blackTeam |-> blackTeam,
                         benchPlayers |-> benchPlayers, returned |-> TRUE]
            /\ pc' = "updateGame"
            /\ error' = error
    /\ UNCHANGED <<Others, Tables, requests, Locals, response, History, RepairVars>>

\* The route stores the ids of the returned players again and answers.
RouteUpdateGame ==
    /\ pc = "updateGame"
    /\ game' = RouteTeams(teams)
    /\ response' = RouteStatus(error)
    /\ pc' = "answered"
    /\ UNCHANGED <<Others, Tables, requests, Locals, error, teams, History, RepairVars>>

\* The route's catch block.
RouteCatch ==
    /\ pc = "catch"
    /\ response' = RouteStatus(error)
    /\ pc' = "answered"
    /\ UNCHANGED <<Others, Tables, game, requests, Locals, error, teams, History,
                   RepairVars>>

\* The request is over; the next one starts with fresh locals.
Finish ==
    /\ pc = "answered"
    /\ firstRun' = IF firstRun.run \/ response = 404 THEN firstRun
                   ELSE [run |-> TRUE, input |-> goingPlayers, ids |-> playerIds,
                         plan |-> <<playersPerTeam1, playersPerTeam2, benchCount>>,
                         teams |-> teams, error |-> error, response |-> response]
    /\ pc' = "idle"
    /\ playerIds' = <<>>
    /\ goingPlayers' = <<>>
    /\ sortedPlayers' = <<>>
    /\ playersPerTeam1' = 0
    /\ playersPerTeam2' = 0
    /\ benchCount' = 0
    /\ benchPlayers' = <<>>
    /\ whiteTeam' = <<>>
    /\ blackTeam' = <<>>
    /\ remainingPlayers' = <<>>
    /\ error' = "none"
    /\ teams' = NoTeams
    /\ response' = 0
    /\ phase' = "none"
    /\ moves' = 0
    /\ startTeams' = [white |-> <<>>, black |-> <<>>]
    /\ UNCHANGED <<Others, Tables, game, requests, unregisters, gameBefore>>

\* DELETE /api/games/:gameId/players/:playerId, between two requests.
UnregisterPlayer(gameId, playerId) ==
    /\ pc = "idle"
    /\ unregisters < MaxUnregisters
    /\ unregisters' = unregisters + 1
    /\ registrations' = Unregistered(registrations, gameId, playerId)
    /\ UNCHANGED <<Others, players, game, pc, requests, Locals, error, teams, response,
                   gameBefore, firstRun, RepairVars>>

Next ==
    \/ \E id \in RequestedIds : RouteGetGame(id)
    \/ \E gameId \in GameIds, playerId \in UnregisteredIds :
           UnregisterPlayer(gameId, playerId)
    \/ SelectRegistrations
    \/ CheckMinimum
    \/ GetPlayers
    \/ PlanSizes
    \/ SeedTeams
    \/ GreedyAssign
    \/ Repair
    \/ Persist
    \/ RouteUpdateGame
    \/ RouteCatch
    \/ Finish

Spec == Init /\ [][Next]_vars

(***************************************************************************)
(* The repair pass on its own: started from two disjoint lists and any     *)
(* planned sizes, one action per block of the pass.                        *)
(***************************************************************************)
RepairSides == {"white", "black", "none"}

\* The players 1..RepairPlayers that side puts on the given team, by id.
TeamOf(profile, side, team) ==
    SelectSeq([i \in 1..RepairPlayers |-> Player(profile, i)],
              LAMBDA p : side[p.id] = team)

InitRepair ==
    /\ \E profile \in {1, NumProfiles}, side \in [1..RepairPlayers -> RepairSides] :
            /\ players = [i \in 1..RepairPlayers |-> Player(profile, i)]
            /\ whiteTeam = TeamOf(profile, side, "white")
            /\ blackTeam = TeamOf(profile, side, "black")
    /\ startTeams = [white |-> whiteTeam, black |-> blackTeam]
    /\ playersPerTeam1 \in 0..RepairPlayers
    /\ playersPerTeam2 \in 0..RepairPlayers
    /\ pc = "repair"
    /\ phase = "underWhite"
    /\ moves = 0
    /\ error = "none"
    /\ registrations = <<>>
    /\ game = EmptyGame
    /\ requests = 0
    /\ unregisters = 0
    /\ playerIds = <<>>
    /\ goingPlayers = <<>>
    /\ sortedPlayers = <<>>
    /\ benchCount = 0
    /\ benchPlayers = <<>>
    /\ remainingPlayers = <<>>
    /\ teams = NoTeams
    /\ response = 0
    /\ gameBefore = EmptyGame
    /\ firstRun = NoRun
    /\ OthersIdle

RepairState ==
    [white |-> whiteTeam, black |-> blackTeam, phase |-> phase, error |-> error,
     moves |-> moves]

\* The pass takes the step RepairStep yields from the current state.
TakeRepairStep ==
    /\ LET st == RepairStep(RepairState, playersPerTeam1, playersPerTeam2)
       IN  /\ whiteTeam' = st.white
           /\ blackTeam' = st.black
           /\ phase' = st.phase
           /\ error' = st.error
           /\ moves' = st.moves
    /\ UNCHANGED <<Others, Tables, game, pc, requests, playerIds, goingPlayers,
                   sortedPlayers, playersPerTeam1, playersPerTeam2, benchCount,
                   benchPlayers, remainingPlayers, teams, response, History,
                   startTeams>>

InBlock(ph) ==
    /\ pc = "repair"
    /\ error = "none"
    /\ phase = ph
    /\ BlockActive(ph, whiteTeam, blackTeam, playersPerTeam1, playersPerTeam2)

\* white is short and black over its size: black's lowest goes to white.
MoveLowestToWhite ==
    /\ InBlock("underWhite")
    /\ TakeRepairStep

\* black is short and white over its size: white's lowest goes to black.
MoveLowestToBlack ==
    /\ InBlock("underBlack")
    /\ TakeRepairStep

\* white is over its size: white's highest goes to black.
MoveHighestToBlack ==
    /\ InBlock("overWhite")
    /\ TakeRepairStep

\* black is over its size: black's highest goes to white.
MoveHighestToWhite ==
    /\ InBlock("overBlack")
    /\ TakeRepairStep

\* The block's condition is false: the pass goes on to the next block.
LeaveBlock ==
    /\ pc = "repair"
    /\ error = "none"
    /\ phase # "done"
    /\ ~BlockActive(phase, whiteTeam, blackTeam, playersPerTeam1, playersPerTeam2)
    /\ TakeRepairStep

NextRepair ==
    \/ MoveLowestToWhite
    \/ MoveLowestToBlack
    \/ MoveHighestToBlack
    \/ MoveHighestToWhite
    \/ LeaveBlock

SpecRepair == InitRepair /\ [][NextRepair]_vars

(***************************************************************************)
(* Two generate-teams requests for the same game served concurrently.  A   *)
(* request yields at each await; between two awaits it runs alone.          *)
(***************************************************************************)
InitConcurrent ==
    /\ \E profile \in 1..NumProfiles, ascending \in BOOLEAN :
            players = PlayerTable(profile, ascending)
    /\ \E k \in MinRegistered..MaxConcurrent :
            registrations = RegistrationTable(k, 0)
    /\ game = EmptyGame
    /\ requests = 0
    /\ unregisters = 0
    /\ gameBefore = EmptyGame
    /\ firstRun = NoRun
    /\ RequestIdle
    /\ OthersIdle

Sequential == <<pc, requests, Locals, error, teams, response, gameBefore, firstRun,
                RepairVars, Apart>>

\* storage.getGame(id) finds the game.
ConcurrentGetGame(r) ==
    /\ procs[r].pc = "idle"
    /\ procs' = [procs EXCEPT ![r].pc = "selectRegistrations"]
    /\ UNCHANGED <<Tables, game, unregisters, Sequential, ui, generatedFrom>>

\* The going registrations are read and the minimum is checked.
ConcurrentSelect(r) ==
    /\ procs[r].pc = "selectRegistrations"
    /\ LET ids == GoingPlayerIds(registrations, 1)
       IN  procs' = [procs EXCEPT
                        ![r].playerIds = ids,
                        ![r].error = IF TooFewRegistered(ids) THEN "AtLeast8Players"
                                     ELSE "none",
                        ![r].pc = IF TooFewRegistered(ids) THEN "catch"
                                  ELSE "getPlayers"]
    /\ UNCHANGED <<Tables, game, unregisters, Sequential, ui, generatedFrom>>

\* The players are read and the teams computed, up to the update statement.
ConcurrentAllocate(r) ==
    /\ procs[r].pc = "getPlayers"
    /\ LET result == generateTeams(players, procs[r].playerIds)
       IN  procs' = [procs EXCEPT
                        ![r].teams = result.teams,
                        ![r].error = result.error,
                        ![r].pc = IF result.error = "none" THEN "persist" ELSE "catch"]
    /\ UNCHANGED <<Tables, game, unregisters, Sequential, ui, generatedFrom>>

\* db.update(games) of generateTeams.
ConcurrentPersist(r) ==
    /\ procs[r].pc = "persist"
    /\ game' = StoredTeams(procs[r].teams.whiteTeam, procs[r].teams.blackTeam,
                           procs[r].teams.benchPlayers)
    /\ generatedFrom' = procs[r].playerIds
    /\ procs' = [procs EXCEPT ![r].pc = "updateGame"]
    /\ UNCHANGED <<Tables, unregisters, Sequential, ui>>

\* storage.updateGame of the route, and the answer.
ConcurrentUpdateGame(r) ==
    /\ procs[r].pc = "updateGame"
    /\ game' = RouteTeams(procs[r].teams)
    /\ generatedFrom' = procs[r].playerIds
    /\ procs' = [procs EXCEPT ![r].pc = "answered",
                              ![r].response = RouteStatus(procs[r].error)]
    /\ UNCHANGED <<Tables, unregisters, Sequential, ui>>

\* The route's catch block.
ConcurrentCatch(r) ==
    /\ procs[r].pc = "catch"
    /\ procs' = [procs EXCEPT ![r].pc = "answered",
                              ![r].response = RouteStatus(procs[r].error)]
    /\ UNCHANGED <<Tables, game, unregisters, Sequential, ui, generatedFrom>>

NextConcurrent ==
    \/ \E r \in Requests :
           \/ ConcurrentGetGame(r)
           \/ ConcurrentSelect(r)
           \/ ConcurrentAllocate(r)
           \/ ConcurrentPersist(r)
           \/ ConcurrentUpdateGame(r)
           \/ ConcurrentCatch(r)
    \/ \E gameId \in GameIds, playerId \in UnregisteredIds :
           UnregisterPlayer(gameId, playerId)

SpecConcurrent == InitConcurrent /\ [][NextConcurrent]_vars

(***************************************************************************)
(* The TeamGenerator component of one browser, its three queries and the   *)
(* generate-teams request it sends.  An event is followed by the renders    *)
(* and effects it causes, up to the state in which no effect changes        *)
(* anything.                                                               *)
(***************************************************************************)
\* The place of an id in the order of Array.prototype.sort() without a
\* comparator, which compares the decimal strings (ids below 100).
StringOrder(id) == IF id < 10 THEN 100 * id ELSE 100 * (id \div 10) + 1 + (id % 10)

\* ids.sort()
DefaultSort(ids) ==
    [i \in 1..Len(ids) |->
        CHOOSE id \in Range(ids) :
            Cardinality({other \in Range(ids) : StringOrder(other) < StringOrder(id)})
                = i - 1]

\* playersChanged of the staleness effect.
playersChanged(current, original) ==
    \/ Len(current) # Len(original)
    \/ \E i \in 1..Len(current) : DefaultSort(current)[i] # DefaultSort(original)[i]

\* whiteTeam.length > 0 && blackTeam.length > 0
HasTeams(t) == Len(t.whiteTeam) > 0 /\ Len(t.blackTeam) > 0

\* useEffect on [game]
EffectGame(u) == IF HasTeams(u.game) THEN [u EXCEPT !.teamsGenerated = TRUE] ELSE u

\* useEffect on [teams, goingPlayerIds, originalPlayerIds.length]
EffectTeams(u) ==
    IF HasTeams(u.teams)
    THEN [u EXCEPT !.teamsGenerated = TRUE,
                   !.originalPlayerIds = IF Len(@) = 0 THEN u.goingPlayerIds ELSE @]
    ELSE u

\* useEffect on [teamsGenerated, goingPlayerIds, originalPlayerIds]
EffectPlayersChanged(u) ==
    IF u.teamsGenerated /\ Len(u.originalPlayerIds) > 0
    THEN [u EXCEPT !.showTeamUpdateNotification =
                       playersChanged(u.goingPlayerIds, u.originalPlayerIds)]
    ELSE u

\* The effects after a change, the staleness check last with the final state.
UiEffects(u) == EffectPlayersChanged(EffectTeams(EffectGame(u)))

\* generateTeamsMutation.mutate()
Mutate(u) == [u EXCEPT !.isPending = TRUE, !.requestedWith = u.goingPlayerIds]

InitUI ==
    /\ players = PlayerTable(1, TRUE)
    /\ \E k \in 0..MaxUiPlayers : registrations = RegistrationTable(k, 0)
    /\ game = EmptyGame
    /\ requests = 0
    /\ unregisters = 0
    /\ gameBefore = EmptyGame
    /\ firstRun = NoRun
    /\ RequestIdle
    /\ OthersIdle

UiUnused == <<players, requests, Locals, teams, gameBefore, firstRun, RepairVars, procs,
             Apart>>
Server == <<registrations, game, generatedFrom, unregisters>>
InFlight == <<pc, response, error>>

\* The games page renders the component with the game it has fetched; the
\* query cache keeps what earlier mounts have fetched.
UiMount ==
    /\ ~ui.mounted
    /\ ui' = UiEffects([ui EXCEPT !.mounted = TRUE, !.game = game])
    /\ UNCHANGED <<Server, InFlight, UiUnused>>

\* The user leaves the page: the component state is gone, the cache stays.
UiUnmount ==
    /\ ui.mounted
    /\ pc = "idle"
    /\ ui' = [UiUnmounted EXCEPT !.goingPlayerIds = ui.goingPlayerIds,
                                 !.teams = ui.teams]
    /\ UNCHANGED <<Server, InFlight, UiUnused>>

\* The page is loaded anew: component state and query cache are gone.
UiReload ==
    /\ ui.mounted
    /\ pc = "idle"
    /\ ui' = UiUnmounted
    /\ UNCHANGED <<Server, InFlight, UiUnused>>

\* GET /api/games/:id/registrations answers.
UiFetchRegistrations ==
    /\ ui.mounted
    /\ ui' = UiEffects([ui EXCEPT !.goingPlayerIds = GoingPlayerIds(registrations, 1)])
    /\ UNCHANGED <<Server, InFlight, UiUnused>>

\* GET /api/games/:id/teams answers (the query is enabled once teams exist).
UiFetchTeams ==
    /\ ui.mounted
    /\ ui.teamsGenerated \/ HasTeams(ui.game)
    /\ ui' = UiEffects([ui EXCEPT !.teams = game])
    /\ UNCHANGED <<Server, InFlight, UiUnused>>

\* The games page fetches the game again and passes it down.
UiFetchGame ==
    /\ ui.mounted
    /\ ui' = UiEffects([ui EXCEPT !.game = game])
    /\ UNCHANGED <<Server, InFlight, UiUnused>>

\* handleGenerateTeams, behind the button shown while no teams are generated;
\* early is isMoreThan7HoursBeforeGame().
UiClickGenerate(early) ==
    /\ ui.mounted
    /\ ~ui.teamsGenerated
    /\ ~(ui.isPending \/ Len(ui.goingPlayerIds) < 2)
    /\ IF Len(ui.goingPlayerIds) < 2
       THEN UNCHANGED <<ui, pc>>
       ELSE IF early
       THEN ui' = [ui EXCEPT !.showEarlyGenerationDialog = TRUE] /\ pc' = pc
       ELSE ui' = Mutate(ui) /\ pc' = "request"
    /\ UNCHANGED <<Server, response, error, UiUnused>>

\* The button of the notification banner.
UiClickBanner(early) ==
    /\ ui.mounted
    /\ ui.teamsGenerated
    /\ ui.showTeamUpdateNotification
    /\ ~ui.isPending
    /\ IF early
       THEN ui' = [ui EXCEPT !.showEarlyGenerationDialog = TRUE] /\ pc' = pc
       ELSE ui' = Mutate(ui) /\ pc' = "request"
    /\ UNCHANGED <<Server, response, error, UiUnused>>

\* handleEarlyGenerationConfirm with the confirmation typed in.
UiConfirmEarly ==
    /\ ui.mounted
    /\ ui.showEarlyGenerationDialog
    /\ ~ui.isPending
    /\ ui' = Mutate([ui EXCEPT !.showEarlyGenerationDialog = FALSE])
    /\ pc' = "request"
    /\ UNCHANGED <<Server, response, error, UiUnused>>

\* handleEarlyGenerationCancel
UiCancelEarly ==
    /\ ui.mounted
    /\ ui.showEarlyGenerationDialog
    /\ ui' = [ui EXCEPT !.showEarlyGenerationDialog = FALSE]
    /\ UNCHANGED <<Server, InFlight, UiUnused>>

\* The server handles the POST: generateTeams, updateGame, the answer.
UiServerGenerate ==
    /\ pc = "request"
    /\ LET ids == GoingPlayerIds(registrations, 1)
           result == generateTeams(players, ids)
       IN  /\ error' = result.error
           /\ response' = RouteStatus(result.error)
           /\ IF result.error = "none"
              THEN game' = RouteTeams(result.teams) /\ generatedFrom' = ids
              ELSE UNCHANGED <<game, generatedFrom>>
    /\ pc' = "response"
    /\ UNCHANGED <<registrations, unregisters, ui, UiUnused>>

\* onSuccess of generateTeamsMutation.
UiOnSuccess ==
    /\ pc = "response"
    /\ response = 200
    /\ ui' = UiEffects([ui EXCEPT !.teamsGenerated = TRUE,
                                  !.originalPlayerIds = ui.goingPlayerIds,
                                  !.showTeamUpdateNotification = FALSE,
                                  !.isPending = FALSE])
    /\ pc' = "idle"
    /\ response' = 0
    /\ error' = "none"
    /\ UNCHANGED <<Server, UiUnused>>

\* onError of generateTeamsMutation.
UiOnError ==
    /\ pc = "response"
    /\ response # 200
    /\ ui' = [ui EXCEPT !.isPending = FALSE]
    /\ pc' = "idle"
    /\ response' = 0
    /\ error' = "none"
    /\ UNCHANGED <<Server, UiUnused>>

\* DELETE /api/games/:gameId/players/:playerId from any browser, at any time.
UiUnregister(gameId, playerId) ==
    /\ unregisters < MaxUnregisters
    /\ unregisters' = unregisters + 1
    /\ registrations' = Unregistered(registrations, gameId, playerId)
    /\ UNCHANGED <<game, generatedFrom, ui, InFlight, UiUnused>>

NextUI ==
    \/ UiMount
    \/ UiUnmount
    \/ UiReload
    \/ UiFetchRegistrations
    \/ UiFetchTeams
    \/ UiFetchGame
    \/ \E early \in BOOLEAN : UiClickGenerate(early)
    \/ \E early \in BOOLEAN : UiClickBanner(early)
    \/ UiConfirmEarly
    \/ UiCancelEarly
    \/ UiServerGenerate
    \/ UiOnSuccess
    \/ UiOnError
    \/ \E gameId \in GameIds, playerId \in UnregisteredIds : UiUnregister(gameId, playerId)

SpecUI == InitUI /\ [][NextUI]_vars

(***************************************************************************)
(* The client's generateBalancedTeams, one action per iteration of its two *)
(* loops.  Its input is a list of players with distinct ids, or no list.   *)
(***************************************************************************)
ClientSkills == {1, 2, 3, 4}

\* A player of the list handed to the client, with one skill value.
ClientPlayer(id, skill) ==
    [id |-> id, overallSkill |-> skill, offenseSkill |-> skill,
     defenseSkill |-> skill, ballHandlingSkill |-> skill]

\* Mutant of DraftToWhite: a plain alternating draft.
DraftToWhiteAlternating(whiteTeamSkill, blackTeamSkill, index) == index % 2 = 0

\* The condition under which forEach pushes the player to whiteTeam.
DraftToWhite(whiteTeamSkill, blackTeamSkill, index) ==
    \/ whiteTeamSkill <= blackTeamSkill /\ index % 2 = 0
    \/ whiteTeamSkill < blackTeamSkill /\ index % 2 = 1

\* team.find(p => p.id === id), undefined when there is none.
FindById(team, id) ==
    IF \E k \in 1..Len(team) : team[k].id = id
    THEN team[CHOOSE k \in 1..Len(team) :
                 team[k].id = id /\ \A j \in 1..(k - 1) : team[j].id # id]
    ELSE undefined

\* Mutant of Replaced: the other player is pushed and nobody is taken out.
ReplacedKeepsOld(team, old, new) == Append(team, new)

\* team.splice(team.indexOf(old), 1, new)
Replaced(team, old, new) ==
    LET k == CHOOSE k \in 1..Len(team) :
                 team[k] = old /\ \A j \in 1..(k - 1) : team[j] # old
    IN  [team EXCEPT ![k] = new]

\* Mutant of ScanStart: the scan starts at the head of the ranking.
ScanStartAtHead(n) == 0

\* Math.floor(sortedPlayers.length / 3), the first i of the scan.
ScanStart(n) == n \div 3

\* The bound of the scan: i < 2 * Math.floor(sortedPlayers.length / 3).
ScanEnd(n) == 2 * (n \div 3)

\* Mutant of SwapImproves: a swap that leaves the difference as it is counts.
SwapImprovesOrKeeps(whiteSkill, blackSkill, whitePlayer, blackPlayer) ==
    LET newWhiteSkill == whiteSkill - whitePlayer.overallSkill + blackPlayer.overallSkill
        newBlackSkill == blackSkill - blackPlayer.overallSkill + whitePlayer.overallSkill
    IN  Abs(newWhiteSkill - newBlackSkill) <= Abs(whiteSkill - blackSkill)

\* Math.abs(newWhiteSkill - newBlackSkill) < Math.abs(whiteTeamSkill - blackTeamSkill)
SwapImproves(whiteSkill, blackSkill, whitePlayer, blackPlayer) ==
    LET newWhiteSkill == whiteSkill - whitePlayer.overallSkill + blackPlayer.overallSkill
        newBlackSkill == blackSkill - blackPlayer.overallSkill + whitePlayer.overallSkill
    IN  Abs(newWhiteSkill - newBlackSkill) < Abs(whiteSkill - blackSkill)

InitClient ==
    /\ \E missing \in BOOLEAN, n \in 0..MaxClientPlayers :
          \E skill \in [1..n -> ClientSkills] :
            /\ missing => n = 0
            /\ client = [ClientIdle EXCEPT
                             !.pc = "called",
                             !.missing = missing,
                             !.players = [k \in 1..n |-> ClientPlayer(k, skill[k])]]
    /\ players = <<>>
    /\ registrations = <<>>
    /\ game = EmptyGame
    /\ requests = 0
    /\ unregisters = 0
    /\ gameBefore = EmptyGame
    /\ firstRun = NoRun
    /\ RequestIdle
    /\ procs = [r \in Requests |-> ProcIdle]
    /\ ui = UiUnmounted
    /\ generatedFrom = <<>>
    /\ reg = RegIdle
    /\ res = ResIdle

ClientUnused == <<Tables, game, pc, requests, Locals, error, teams, response, History,
                 RepairVars, procs, ui, generatedFrom, reg, res>>

\* No list or fewer than two players: two empty teams are returned.
ClientReturnEmpty ==
    /\ client.pc = "called"
    /\ client.missing \/ Len(client.players) < 2
    /\ client' = [client EXCEPT !.pc = "returned",
                                 !.result = [whiteTeam |-> <<>>, blackTeam |-> <<>>]]
    /\ UNCHANGED ClientUnused

\* The copy of the list is sorted, the teams and their skill sums start empty.
ClientSort ==
    /\ client.pc = "called"
    /\ ~client.missing
    /\ Len(client.players) >= 2
    /\ client' = [client EXCEPT !.pc = "draft",
                                 !.sortedPlayers = SortDescending(client.players),
                                 !.index = 0]
    /\ UNCHANGED ClientUnused

\* One iteration of sortedPlayers.forEach.
ClientDraft ==
    /\ client.pc = "draft"
    /\ client.index < Len(client.sortedPlayers)
    /\ LET player == client.sortedPlayers[client.index + 1]
       IN  IF DraftToWhite(client.whiteTeamSkill, client.blackTeamSkill, client.index)
           THEN client' = [client EXCEPT
                    !.whiteTeam = Append(@, player),
                    !.whiteTeamSkill = @ + player.overallSkill,
                    !.index = @ + 1]
           ELSE client' = [client EXCEPT
                    !.blackTeam = Append(@, player),
                    !.blackTeamSkill = @ + player.overallSkill,
                    !.index = @ + 1]
    /\ UNCHANGED ClientUnused

\* After the draft: the swap phase is entered for an odd number of players
\* whose two sums differ by more than 1.
ClientAfterDraft ==
    /\ client.pc = "draft"
    /\ client.index = Len(client.sortedPlayers)
    /\ IF /\ Len(client.sortedPlayers) % 2 = 1
          /\ Abs(client.whiteTeamSkill - client.blackTeamSkill) > 1
       THEN client' = [client EXCEPT !.pc = "scan",
                                     !.i = ScanStart(Len(client.sortedPlayers))]
       ELSE client' = [client EXCEPT !.pc = "return"]
    /\ UNCHANGED ClientUnused

\* One iteration of the scan: the swap and the break, or the next i.
ClientScan ==
    /\ client.pc = "scan"
    /\ client.i < ScanEnd(Len(client.sortedPlayers))
    /\ LET whitePlayer == FindById(client.whiteTeam, At(client.sortedPlayers, client.i).id)
           blackPlayer == FindById(client.blackTeam,
                                   At(client.sortedPlayers, client.i + 1).id)
       IN  IF /\ whitePlayer # undefined
              /\ blackPlayer # undefined
              /\ SwapImproves(client.whiteTeamSkill, client.blackTeamSkill,
                              whitePlayer, blackPlayer)
           THEN client' = [client EXCEPT
                    !.whiteTeam = Replaced(@, whitePlayer, blackPlayer),
                    !.blackTeam = Replaced(@, blackPlayer, whitePlayer),
                    !.swaps = @ + 1,
                    !.pc = "return"]
           ELSE client' = [client EXCEPT !.i = @ + 1]
    /\ UNCHANGED ClientUnused

\* The scan reaches its bound without a swap.
ClientScanEnd ==
    /\ client.pc = "scan"
    /\ client.i >= ScanEnd(Len(client.sortedPlayers))
    /\ client' = [client EXCEPT !.pc = "return"]
    /\ UNCHANGED ClientUnused

\* return { whiteTeam, blackTeam }
ClientReturn ==
    /\ client.pc = "return"
    /\ client' = [client EXCEPT
            !.pc = "returned",
            !.result = [whiteTeam |-> client.whiteTeam, blackTeam |-> client.blackTeam]]
    /\ UNCHANGED ClientUnused

NextClient ==
    \/ ClientReturnEmpty
    \/ ClientSort
    \/ ClientDraft
    \/ ClientAfterDraft
    \/ ClientScan
    \/ ClientScanEnd
    \/ ClientReturn

SpecClient == InitClient /\ [][NextClient]_vars

(***************************************************************************)
(* registerPlayer and unregisterPlayer called concurrently.  A call of     *)
(* registerPlayer yields at each of its awaits: the select, the delete of  *)
(* the row it found, the insert.                                           *)
(***************************************************************************)
RegPlayers == {1, 2}
Votes == {"going", "not_going"}

\* The rows of the player for the game, as the select returns them.
ExistingReg(regs, gameId, playerId) ==
    SelectSeq(regs, LAMBDA r : r.gameId = gameId /\ r.playerId = playerId)

\* db.delete(registrations).where(eq(registrations.id, id))
DeletedById(regs, id) == SelectSeq(regs, LAMBDA r : r.id # id)

\* The table a sequence of calls has left: some of the players hold one row.
InitRegistrations ==
    /\ \E registered \in SUBSET RegPlayers, vote \in [RegPlayers -> Votes] :
          LET rows == SelectSeq([p \in 1..Cardinality(RegPlayers) |->
                                    Registration(p, p, 1, vote[p])],
                                LAMBDA r : r.playerId \in registered)
          IN  /\ registrations = rows
              /\ reg = [RegIdle EXCEPT !.serial = Cardinality(RegPlayers)]
    /\ players = <<>>
    /\ game = EmptyGame
    /\ requests = 0
    /\ unregisters = 0
    /\ gameBefore = EmptyGame
    /\ firstRun = NoRun
    /\ RequestIdle
    /\ procs = [r \in Requests |-> ProcIdle]
    /\ ui = UiUnmounted
    /\ generatedFrom = <<>>
    /\ client = ClientIdle
    /\ res = ResIdle

RegUnused == <<players, game, pc, requests, Locals, error, teams, response, History,
              RepairVars, procs, ui, generatedFrom, client, res>>

\* registerPlayer is called and selects the rows of the player for the game.
RegisterSelect(c, playerId, status) ==
    /\ reg.calls[c].pc = "idle"
    /\ reg.started < MaxRegCalls
    /\ reg' = [reg EXCEPT
            !.started = @ + 1,
            !.calls[c] = [pc |-> "selected",
                          registration |-> [playerId |-> playerId, gameId |-> 1,
                                            status |-> status],
                          existingReg |-> ExistingReg(registrations, 1, playerId)]]
    /\ UNCHANGED <<registrations, RegUnused>>

\* A row was found: the first one is deleted by its id.
RegisterDelete(c) ==
    /\ reg.calls[c].pc = "selected"
    /\ Len(reg.calls[c].existingReg) > 0
    /\ registrations' = DeletedById(registrations, reg.calls[c].existingReg[1].id)
    /\ reg' = [reg EXCEPT !.calls[c].pc = "deleted"]
    /\ UNCHANGED RegUnused

\* The new row is inserted with the next id and returned.
RegisterInsert(c) ==
    /\ \/ reg.calls[c].pc = "deleted"
       \/ reg.calls[c].pc = "selected" /\ Len(reg.calls[c].existingReg) = 0
    /\ LET r == reg.calls[c].registration
       IN  registrations' = Append(registrations,
                                   Registration(reg.serial + 1, r.playerId, r.gameId,
                                                r.status))
    /\ reg' = [reg EXCEPT !.serial = @ + 1, !.calls[c] = CallIdle]
    /\ UNCHANGED RegUnused

\* unregisterPlayer: one delete of the rows of the player for the game.
RegUnregister(c, playerId) ==
    /\ reg.calls[c].pc = "idle"
    /\ reg.started < MaxRegCalls
    /\ registrations' = Unregistered(registrations, 1, playerId)
    /\ reg' = [reg EXCEPT !.started = @ + 1]
    /\ UNCHANGED RegUnused

NextRegistrations ==
    \/ \E c \in Callers, playerId \in RegPlayers, status \in Votes :
            RegisterSelect(c, playerId, status)
    \/ \E c \in Callers : RegisterDelete(c)
    \/ \E c \in Callers : RegisterInsert(c)
    \/ \E c \in Callers, playerId \in RegPlayers : RegUnregister(c, playerId)

SpecRegistrations == InitRegistrations /\ [][NextRegistrations]_vars

(***************************************************************************)
(* PATCH /api/games/:id marking the game as played, recordGameResults and  *)
(* GET /api/games/:id/teams.  Two PATCH requests with the same body are    *)
(* served concurrently; a request yields at each await.                    *)
(***************************************************************************)
\* The score lines of the PATCH body: white wins, black wins, a draw.
ScoreLines == {<<2, 1>>, <<1, 3>>, <<1, 1>>}

\* The going registrations of a game whose teams were never generated, as
\* <<existing players, registrations of missing players>>.
ResultRosters == {<<MinRegistered - 1, 0>>, <<2, MinRegistered - 2>>, <<1, MinRegistered - 1>>}

ResultSides == {"white", "black", "bench"}

\* The ids 1..ResultPlayers that side puts on the given list.
IdsOf(side, team) ==
    SelectSeq([i \in 1..ResultPlayers |-> i], LAMBDA i : side[i] = team)

\* processTeamIds: [] for null, the numbers of an array of numbers.
processTeamIds(isNull, teamData) == IF isNull THEN <<>> ELSE teamData

\* The row recordGameResults inserts for a player of the given team.
ResultRow(playerId, team, scores) ==
    LET isDraw == scores[1] = scores[2]
        whiteTeamWon == scores[1] > scores[2]
        scoreDiff == Abs(scores[1] - scores[2])
    IN  [playerId |-> playerId,
         team |-> team,
         won |-> IF team = "white" THEN whiteTeamWon
                 ELSE IF team = "black" THEN ~whiteTeamWon /\ ~isDraw
                 ELSE FALSE,
         scoreDifference |->
             IF isDraw THEN 0
             ELSE IF team = "white" THEN (IF whiteTeamWon THEN scoreDiff ELSE 0 - scoreDiff)
             ELSE IF team = "black" THEN (IF ~whiteTeamWon THEN scoreDiff ELSE 0 - scoreDiff)
             ELSE ((scoreDiff + 1) \div 2) * (IF whiteTeamWon THEN 1 ELSE 0 - 1)]

\* The rows of the three insert loops, in the order they are inserted.
ResultRows(whiteTeamIds, blackTeamIds, benchPlayerIds, scores) ==
    [k \in 1..Len(whiteTeamIds) |-> ResultRow(whiteTeamIds[k], "white", scores)]
    \o [k \in 1..Len(blackTeamIds) |-> ResultRow(blackTeamIds[k], "black", scores)]
    \o [k \in 1..Len(benchPlayerIds) |-> ResultRow(benchPlayerIds[k], "bench", scores)]

\* ids.map(id => allPlayers.find(p => p.id === id)).filter(player => player !== undefined)
FoundPlayers(table, ids) ==
    SelectSeq(ids, LAMBDA id : \E k \in 1..Len(table) : table[k].id = id)

\* Mutant of OnWhite: the row's team column decides.
OnWhiteByTeam(result, scores) == result.team = "white"

\* The test that puts the player of a result row on the white team.
OnWhite(result, scores) ==
    LET whiteWon == scores[1] > scores[2]
    IN  (result.won /\ whiteWon) \/ (~result.won /\ ~whiteWon)

\* The teams the route answers with, as player ids: the stored lists, and
\* for an archived and played game without one of the teams the players of
\* the game_results rows.
TeamsResponse(table, stored, r) ==
    LET fromWhite == FoundPlayers(table, processTeamIds(r.teamsNull, stored.whiteTeam))
        fromBlack == FoundPlayers(table, processTeamIds(r.teamsNull, stored.blackTeam))
        fromBench == FoundPlayers(table, processTeamIds(FALSE, stored.benchPlayers))
        present == SelectSeq(r.gameResults,
                             LAMBDA result :
                                 \E k \in 1..Len(table) : table[k].id = result.playerId)
        white == SelectSeq(present, LAMBDA result : OnWhite(result, r.scores))
        black == SelectSeq(present, LAMBDA result : ~OnWhite(result, r.scores))
    IN  IF /\ Len(fromWhite) = 0 \/ Len(fromBlack) = 0
           /\ r.isArchived
           /\ r.wasPlayed
           /\ Len(r.gameResults) > 0
           /\ r.scores # <<>>
        THEN [whiteTeam |-> fromWhite \o [k \in 1..Len(white) |-> white[k].playerId],
              blackTeam |-> fromBlack \o [k \in 1..Len(black) |-> black[k].playerId],
              benchPlayers |-> fromBench]
        ELSE [whiteTeam |-> fromWhite, blackTeam |-> fromBlack,
              benchPlayers |-> fromBench]

InitResults ==
    /\ players = PlayerTable(1, TRUE)
    /\ \E body \in ScoreLines :
          \/ \E roster \in ResultRosters :
                /\ registrations = RegistrationTable(roster[1], roster[2])
                /\ game = EmptyGame
                /\ res = [ResIdle EXCEPT !.body = body]
          \/ \E side \in [1..ResultPlayers -> ResultSides] :
                /\ registrations = RegistrationTable(0, 0)
                /\ game = [whiteTeam |-> IdsOf(side, "white"),
                           blackTeam |-> IdsOf(side, "black"),
                           benchPlayers |-> IdsOf(side, "bench")]
                /\ res = [ResIdle EXCEPT !.body = body, !.teamsNull = FALSE]
    /\ requests = 0
    /\ unregisters = 0
    /\ gameBefore = EmptyGame
    /\ firstRun = NoRun
    /\ RequestIdle
    /\ procs = [r \in Requests |-> ProcIdle]
    /\ ui = UiUnmounted
    /\ generatedFrom = <<>>
    /\ client = ClientIdle
    /\ reg = RegIdle

ResUnused == <<Tables, pc, requests, Locals, error, teams, response, History, RepairVars,
              procs, ui, generatedFrom, client, reg>>

\* A call of recordGameResults at its first statement.
RecordCalled(depth) == [RecordIdle EXCEPT !.pc = "getGame", !.depth = depth]

\* The request after its call of recordGameResults has returned: the call
\* inside updateGame is followed by the route's own, the route's by the answer.
Returned(patch) ==
    IF patch.pc = "inner" THEN [patch EXCEPT !.pc = "route", !.rec = RecordCalled(1)]
    ELSE [patch EXCEPT !.pc = "done", !.rec = RecordIdle]

\* updateGame reads the game and decides whether the update completes it.
PatchGetGame(p) ==
    /\ res.patches[p].pc = "idle"
    /\ res' = [res EXCEPT
            !.patches[p].pc = "update",
            !.patches[p].isCompletingGame = (~res.wasPlayed \/ res.scores # res.body)]
    /\ UNCHANGED <<game, ResUnused>>

\* The update is written; a completing update calls recordGameResults inside
\* updateGame, every update with wasPlayed and scores calls it in the route.
PatchUpdate(p) ==
    /\ res.patches[p].pc = "update"
    /\ res' = [res EXCEPT
            !.wasPlayed = TRUE,
            !.scores = res.body,
            !.patches[p].pc = IF res.patches[p].isCompletingGame THEN "inner" ELSE "route",
            !.patches[p].rec = RecordCalled(1)]
    /\ UNCHANGED <<game, ResUnused>>

InRecord(p, at) ==
    /\ res.patches[p].pc \in {"inner", "route"}
    /\ res.patches[p].rec.pc = at

\* recordGameResults reads the game and its three lists.
RecordGetGame(p) ==
    /\ InRecord(p, "getGame")
    /\ LET whiteTeamIds == processTeamIds(res.teamsNull, game.whiteTeam)
           blackTeamIds == processTeamIds(res.teamsNull, game.blackTeam)
           benchPlayerIds == processTeamIds(FALSE, game.benchPlayers)
       IN  IF ~res.wasPlayed \/ res.scores = <<>>
           THEN res' = [res EXCEPT !.patches[p] = Returned(@)]
           ELSE IF Len(whiteTeamIds) = 0 /\ Len(blackTeamIds) = 0
           THEN IF res.teamsNull
                THEN res' = [res EXCEPT !.patches[p].rec.pc = "generate"]
                ELSE res' = [res EXCEPT !.patches[p] = Returned(@)]
           ELSE res' = [res EXCEPT
                    !.patches[p].rec.pc = "delete",
                    !.patches[p].rec.whiteTeamIds = whiteTeamIds,
                    !.patches[p].rec.blackTeamIds = blackTeamIds,
                    !.patches[p].rec.benchPlayerIds = benchPlayerIds,
                    !.patches[p].rec.scores = res.scores]
    /\ UNCHANGED <<game, ResUnused>>

\* Mutant of RecordGenerate: generateTeams returns without having stored
\* the teams.
RecordGenerateUnstored(p) ==
    /\ InRecord(p, "generate")
    /\ \E out \in {generateTeams(players, GoingPlayerIds(registrations, 1))} :
           IF out.error = "none"
           THEN /\ game' = game
                /\ res' = [res EXCEPT
                       !.patches[p].rec = RecordCalled(res.patches[p].rec.depth + 1)]
           ELSE /\ game' = game
                /\ res' = [res EXCEPT !.patches[p] = Returned(@)]
    /\ UNCHANGED ResUnused

\* No team data: generateTeams is called; when it returns the call retries,
\* when it throws the error is caught and the call returns.
RecordGenerate(p) ==
    /\ InRecord(p, "generate")
    /\ \E out \in {generateTeams(players, GoingPlayerIds(registrations, 1))} :
           IF out.error = "none"
           THEN /\ game' = StoredTeams(out.teams.whiteTeam, out.teams.blackTeam,
                                       out.teams.benchPlayers)
                /\ res' = [res EXCEPT
                       !.teamsNull = FALSE,
                       !.patches[p].rec = RecordCalled(res.patches[p].rec.depth + 1)]
           ELSE /\ game' = game
                /\ res' = [res EXCEPT !.patches[p] = Returned(@)]
    /\ UNCHANGED ResUnused

\* db.delete(gameResults).where(eq(gameResults.gameId, gameId))
RecordDelete(p) ==
    /\ InRecord(p, "delete")
    /\ LET rec == res.patches[p].rec
       IN  res' = [res EXCEPT
               !.gameResults = <<>>,
               !.patches[p].rec.pc = "insert",
               !.patches[p].rec.todo = ResultRows(rec.whiteTeamIds, rec.blackTeamIds,
                                                  rec.benchPlayerIds, rec.scores)]
    /\ UNCHANGED <<game, ResUnused>>

\* One insert of the three loops; after the last one the call returns.
RecordInsert(p) ==
    /\ InRecord(p, "insert")
    /\ LET todo == res.patches[p].rec.todo
           inserted == [res EXCEPT !.gameResults = Append(@, Head(todo)),
                                   !.patches[p].rec.todo = Tail(todo)]
       IN  IF Len(todo) = 1
           THEN res' = [inserted EXCEPT !.patches[p] = Returned(@)]
           ELSE res' = inserted
    /\ UNCHANGED <<game, ResUnused>>

Quiet == \A p \in Patchers : res.patches[p].pc \in {"idle", "done"}

\* The component's reset: PATCH with three empty lists.
ResetTeams ==
    /\ Quiet
    /\ ~res.reset
    /\ game' = EmptyGame
    /\ res' = [res EXCEPT !.teamsNull = FALSE, !.reset = TRUE]
    /\ UNCHANGED ResUnused

\* PATCH { isArchived: true }
ArchiveGame ==
    /\ Quiet
    /\ ~res.isArchived
    /\ res' = [res EXCEPT !.isArchived = TRUE]
    /\ UNCHANGED <<game, ResUnused>>

\* GET /api/games/:id/teams
GetTeams ==
    /\ Quiet
    /\ ~res.asked
    /\ res' = [res EXCEPT !.asked = TRUE,
                           !.teamsResponse = TeamsResponse(players, game, res)]
    /\ UNCHANGED <<game, ResUnused>>

NextResults ==
    \/ \E p \in Patchers : PatchGetGame(p)
    \/ \E p \in Patchers : PatchUpdate(p)
    \/ \E p \in Patchers : RecordGetGame(p)
    \/ \E p \in Patchers : RecordGenerate(p)
    \/ \E p \in Patchers : RecordDelete(p)
    \/ \E p \in Patchers : RecordInsert(p)
    \/ ResetTeams
    \/ ArchiveGame
    \/ GetTeams

SpecResults == InitResults /\ [][NextResults]_vars

(***************************************************************************)
(* What the claims speak of.                                               *)
(***************************************************************************)
\* The going registrations of the game and the players they name.
GoingRegistrations ==
    {r \in Range(registrations) : r.gameId \in GameIds /\ r.status = "going"}

AttendingPlayers ==
    {p \in Range(players) : \E r \in GoingRegistrations : r.playerId = p.id}

AttendingCount == Cardinality(AttendingPlayers)

\* Every going registration names a player of the table, and no player twice.
ValidRoster ==
    /\ \A r \in GoingRegistrations : \E p \in Range(players) : p.id = r.playerId
    /\ \A r1, r2 \in GoingRegistrations : r1.playerId = r2.playerId => r1 = r2

\* The route has answered a request for the game.
Answered == pc = "answered" /\ response # 404

\* The three lists hold every attending player once and nobody else.
IsPartition(t) ==
    LET all == t.whiteTeam \o t.blackTeam \o t.benchPlayers
    IN  /\ Range(all) = AttendingPlayers
        /\ Len(all) = AttendingCount
        /\ Range(t.whiteTeam) \cap Range(t.blackTeam) = {}
        /\ Range(t.whiteTeam) \cap Range(t.benchPlayers) = {}
        /\ Range(t.blackTeam) \cap Range(t.benchPlayers) = {}

Sizes(t) == <<Len(t.whiteTeam), Len(t.blackTeam), Len(t.benchPlayers)>>

Min(a, b) == IF a <= b THEN a ELSE b

\* The Size Planner table of the specification, as <<sizeA, sizeB, bench>>.
TableSizes(n) ==
    IF n <= 12 THEN <<(n + 1) \div 2, n - ((n + 1) \div 2), 0>>
    ELSE IF n = 13 THEN <<6, 6, 1>>
    ELSE IF n = 14 THEN <<7, 7, 0>>
    ELSE IF n <= 17 THEN <<n \div 2, (n + 1) \div 2, 0>>
    ELSE <<Min(9, n \div 2), Min(9, (n + 1) \div 2),
           n - Min(9, n \div 2) - Min(9, (n + 1) \div 2)>>

C3_SizeDifference ==
    teams.returned /\ teams.benchPlayers = <<>>
        => Abs(Len(teams.whiteTeam) - Len(teams.blackTeam)) <= 1

\* C3 witness: an odd roster without bench, one team a player larger.
C3_Witness ==
    /\ teams.returned
    /\ teams.benchPlayers = <<>>
    /\ Abs(Len(teams.whiteTeam) - Len(teams.blackTeam)) = 1

(***************************************************************************)
(* C4.  The size plan.                                                     *)
(***************************************************************************)
Planned == pc \in {"seed", "greedy", "persist", "updateGame", "catch", "answered"}

\* C4: for every totalCount of at least 2 the planned sizes add up to
\* totalCount with the bench, the bench is not negative and the two team
\* sizes differ by at most 1.
C4_SizePlan ==
    Planned /\ Len(sortedPlayers) >= 2 =>
        /\ playersPerTeam1 + playersPerTeam2 + benchCount = Len(sortedPlayers)
        /\ benchCount >= 0
        /\ Abs(playersPerTeam1 - playersPerTeam2) <= 1

\* C4 witness: a plan of a bench band.
C4_Witness ==
    /\ pc = "seed"
    /\ Len(sortedPlayers) >= 2
    /\ benchCount >= 2

(***************************************************************************)
(* C5.  Rosters of at least 2 players.                                     *)
(***************************************************************************)
\* The attending players are two, with overallSkill 10 and 1.
TenAndOne ==
    /\ AttendingCount = 2
    /\ {p.overallSkill : p \in AttendingPlayers} = {10, 1}

StoredComplete ==
    /\ teams.returned
    /\ game = RouteTeams(teams)
    /\ Sizes(teams) = <<playersPerTeam1, playersPerTeam2, benchCount>>
    /\ Len(sortedPlayers) = playersPerTeam1 + playersPerTeam2 + benchCount

\* C7: whenever team generation fails the caller gets an error answer and the
\* stored whiteTeam, blackTeam and benchPlayers are what they were before the
\* request; while a request is served the stored lists are either those
\* earlier ones or a complete assignment of the planned sizes.
C7_NoPartialResults ==
    /\ pc = "answered" /\ (error # "none" \/ ~teams.returned) =>
           /\ response \in {404, 500}
           /\ game = gameBefore
    /\ pc = "answered" /\ response = 200 => StoredComplete
    /\ pc # "idle" => game = gameBefore \/ StoredComplete

\* C7 witness: a request has failed while teams of an earlier request are stored.
C7_Witness ==
    /\ Answered
    /\ error # "none"
    /\ response = 500
    /\ game # EmptyGame

Seeded == pc \in {"greedy", "persist", "updateGame"} \/ (Answered /\ teams.returned)

OnTheField == Range(whiteTeam \o blackTeam \o remainingPlayers)

\* C9: from the seeding on, the bench holds exactly the benchCount players
\* ranked last by overallSkill, none of them is dealt to a team, and every
\* benched player's overallSkill is at most that of every player of the two
\* teams; 13 players bench one, 20 players bench two.
C9_BenchSelection ==
    Seeded =>
        /\ Len(benchPlayers) = benchCount
        /\ benchPlayers = SliceFrom(sortedPlayers, Len(sortedPlayers) - benchCount)
        /\ Range(benchPlayers) \cap OnTheField = {}
        /\ \A b \in Range(benchPlayers) : \A t \in OnTheField :
               b.overallSkill <= t.overallSkill
        /\ Len(sortedPlayers) = 13 => Len(benchPlayers) = 1
        /\ Len(sortedPlayers) = 20 => Len(benchPlayers) = 2

\* C9 witness: 20 players, the two benched ones weaker than a fielded one.
C9_Witness ==
    /\ Answered
    /\ teams.returned
    /\ Len(sortedPlayers) = 20
    /\ Len(teams.benchPlayers) = 2
    /\ \E b \in Range(teams.benchPlayers) : \E t \in Range(teams.whiteTeam) :
           b.overallSkill < t.overallSkill

(***************************************************************************)
(* C10.  The repair pass.                                                  *)
(***************************************************************************)
\* The pass started from lists that together hold sizeA + sizeB players.
RepairPre ==
    Len(startTeams.white) + Len(startTeams.black) = playersPerTeam1 + playersPerTeam2

Imbalance ==
    Abs(Len(whiteTeam) - playersPerTeam1) + Abs(Len(blackTeam) - playersPerTeam2)

RepairSafe ==
    RepairPre =>
        /\ error = "none"
        /\ moves <= Len(startTeams.white) + Len(startTeams.black)
        /\ phase # "done" => ENABLED NextRepair
        /\ phase = "done" =>
               /\ Len(whiteTeam) = playersPerTeam1
               /\ Len(blackTeam) = playersPerTeam2
               /\ Range(whiteTeam) \cup Range(blackTeam)
                      = Range(startTeams.white) \cup Range(startTeams.black)
               /\ Range(whiteTeam) \cap Range(blackTeam) = {}
               /\ Cardinality(Range(whiteTeam)) = Len(whiteTeam)
               /\ Cardinality(Range(blackTeam)) = Len(blackTeam)

RepairMoveReduces ==
    RepairPre /\ moves' # moves => moves' = moves + 1 /\ Imbalance' < Imbalance

\* C10: started from two disjoint lists that together hold sizeA + sizeB
\* players, the repair pass makes at most n moves, each move makes the size
\* imbalance strictly smaller, the pass can go on until it is done, and it
\* ends with len(teamA) = sizeA, len(teamB) = sizeB and the players it
\* started with, none twice and none dropped.
C10_RepairPass == []RepairSafe /\ [][RepairMoveReduces]_vars

\* C10 witness: a pass that had to make two moves is done.
C10_Witness ==
    /\ RepairPre
    /\ phase = "done"
    /\ moves >= 2

(***************************************************************************)
(* C11.  Two concurrent requests for one game.                             *)
(***************************************************************************)
BothAnswered == \A r \in Requests : procs[r].pc = "answered"

\* The stored lists are those of the allocation request r returned.
StoredFrom(r) ==
    /\ procs[r].teams.returned
    /\ game = RouteTeams(procs[r].teams)

\* The stored lists share no id and hold the ids the allocation was made from.
StoredPartition ==
    /\ Range(game.whiteTeam) \cap Range(game.blackTeam) = {}
    /\ Range(game.whiteTeam) \cap Range(game.benchPlayers) = {}
    /\ Range(game.blackTeam) \cap Range(game.benchPlayers) = {}
    /\ Range(game.whiteTeam) \cup Range(game.blackTeam) \cup Range(game.benchPlayers)
           = Range(generatedFrom)
    /\ Len(game.whiteTeam) + Len(game.blackTeam) + Len(game.benchPlayers)
           = Len(generatedFrom)

\* C11: under every interleaving of two generate-teams requests for one game,
\* at every moment the stored whiteTeam, blackTeam and benchPlayers are the
\* three lists of one of the two allocations, never a mix, and once both
\* requests are answered they are the lists of a request that returned teams:
\* pairwise disjoint and a partition of the going ids that request read.
C11_LastWriteWins ==
    /\ game = EmptyGame \/ \E r \in Requests : StoredFrom(r)
    /\ game # EmptyGame => StoredPartition
    /\ BothAnswered /\ (\E r \in Requests : procs[r].teams.returned) =>
           \E r \in Requests : StoredFrom(r)

\* C11 witness: both requests are answered with different teams, the second
\* request's own write came last and yet the stored lists are the first's.
C11_Witness ==
    /\ BothAnswered
    /\ procs[1].teams.returned
    /\ procs[2].teams.returned
    /\ RouteTeams(procs[1].teams) # RouteTeams(procs[2].teams)
    /\ game = RouteTeams(procs[1].teams)
    /\ Len(procs[2].playerIds) < Len(procs[1].playerIds)

(***************************************************************************)
(* C12.  The scenario of 13 players.                                       *)
(***************************************************************************)
\* The attending players are the 13 of the scenario, every sub-skill of a
\* player equal to the overallSkill.
ThirteenScenario ==
    /\ {p.id : p \in AttendingPlayers} = 1..Len(Scenario13)
    /\ \A p \in AttendingPlayers :
           /\ p.overallSkill = Scenario13[p.id]
           /\ p.offenseSkill = p.overallSkill
           /\ p.defenseSkill = p.overallSkill
           /\ p.ballHandlingSkill = p.overallSkill

SkillGap(t) ==
    Abs(SumOf(t.whiteTeam, "overallSkill") - SumOf(t.blackTeam, "overallSkill"))

\* C12 as stated: for the 13 players of skills 9,8,7,6,6,5,5,4,4,3,3,2,1 the allocator
\* returns sizes (6,6,1), the bench holds the player of skill 1 and the
\* overallSkill sums of teamA and teamB differ by at most 2.
C12_AsStated ==
    Answered /\ ValidRoster /\ ThirteenScenario =>
        /\ teams.returned
        /\ Sizes(teams) = <<6, 6, 1>>
        /\ teams.benchPlayers[1].overallSkill = 1
        /\ SkillGap(teams) <= 2

(***************************************************************************)
(* C13.  The caller's threshold.                                           *)
(***************************************************************************)
\* C13 as stated: the component never sends a generate-teams request for a
\* game that it sees with fewer than 8 players going.
C13_AsStated ==
    pc = "request" => Len(ui.requestedWith) >= 8

(***************************************************************************)
(* C14.  The notification that the teams are out of date.                  *)
(***************************************************************************)
\* The component has fetched what the server holds and no request is under way.
UiSettled ==
    /\ ui.mounted
    /\ pc = "idle"
    /\ ui.goingPlayerIds = GoingPlayerIds(registrations, 1)
    /\ ui.teams = game
    /\ ui.game = game

\* Teams are stored and the going players are not those they were made from.
TeamsOutOfDate ==
    /\ HasTeams(game)
    /\ Range(GoingPlayerIds(registrations, 1)) # Range(generatedFrom)

\* C14 as stated: once the component has fetched the current registrations
\* and teams, showTeamUpdateNotification is true exactly when the going
\* players differ from those the stored teams were generated from.
C14_AsStated ==
    UiSettled => (ui.showTeamUpdateNotification <=> TeamsOutOfDate)

(***************************************************************************)
(* C15.  The seeds.                                                        *)
(***************************************************************************)
\* C15: from the seeding to the returned assignment the player ranked first
\* by overallSkill is the first member of whiteTeam and the player ranked
\* second the first member of blackTeam; neither is ever on the other team.
C15_Seeds ==
    Seeded /\ Len(sortedPlayers) >= 2 =>
        /\ whiteTeam[1] = sortedPlayers[1]
        /\ blackTeam[1] = sortedPlayers[2]
        /\ sortedPlayers[1] \notin Range(blackTeam)
        /\ sortedPlayers[2] \notin Range(whiteTeam)
        /\ \A p \in Range(sortedPlayers) : p.overallSkill <= sortedPlayers[1].overallSkill
        /\ teams.returned =>
               /\ sortedPlayers[1] \in Range(teams.whiteTeam)
               /\ sortedPlayers[2] \in Range(teams.blackTeam)

\* C15 witness: teams of three and more are returned, and the two best
\* players differ in overallSkill.
C15_Witness ==
    /\ Answered
    /\ teams.returned
    /\ Len(teams.whiteTeam) >= 3
    /\ sortedPlayers[1].overallSkill > sortedPlayers[2].overallSkill
    /\ teams.whiteTeam[1] = sortedPlayers[1]

(***************************************************************************)
(* C16.  The hard caps of the greedy loop.                                 *)
(***************************************************************************)
\* The loop has a player to deal or has dealt one.
InLoop ==
    /\ pc = "greedy"
    /\ remainingPlayers # <<>> \/ Len(whiteTeam) + Len(blackTeam) > 2

\* C16: throughout the greedy loop no team holds more than its planned size,
\* and while a player is left to be dealt at least one team is below its
\* planned size.
C16_HardCaps ==
    InLoop =>
        /\ Len(whiteTeam) <= playersPerTeam1
        /\ Len(blackTeam) <= playersPerTeam2
        /\ remainingPlayers # <<>> =>
               Len(whiteTeam) < playersPerTeam1 \/ Len(blackTeam) < playersPerTeam2

\* C16 witness: white is full, players are left, and white is the team the
\* strength rule would have chosen.
C16_Witness ==
    /\ InLoop
    /\ remainingPlayers # <<>>
    /\ Len(whiteTeam) = playersPerTeam1
    /\ Len(blackTeam) < playersPerTeam2
    /\ Abs(Len(whiteTeam) - Len(blackTeam)) < 2
    /\ WhiteNotStronger(whiteTeam, blackTeam)

(***************************************************************************)
(* C17.  The lists the greedy loop leaves and the repair pass.             *)
(***************************************************************************)
\* The loop has dealt its last player and the repair pass has not run.
LoopDone == pc = "greedy" /\ remainingPlayers = <<>>

\* len(teamA) != sizeA or len(teamB) != sizeB
Deviates(white, black, perTeam1, perTeam2) ==
    Len(white) # perTeam1 \/ Len(black) # perTeam2

Dealing ==
    /\ pc = "greedy"
    /\ remainingPlayers # <<>>
    /\ Len(whiteTeam) < playersPerTeam1
    /\ Len(blackTeam) < playersPerTeam2

Throttled == Dealing /\ Abs(Len(whiteTeam) - Len(blackTeam)) >= 2

DealtToWhite ==
    /\ whiteTeam' = Append(whiteTeam, Head(remainingPlayers))
    /\ blackTeam' = blackTeam

DealtToBlack ==
    /\ blackTeam' = Append(blackTeam, Head(remainingPlayers))
    /\ whiteTeam' = whiteTeam

\* C18: when neither team is full and the sizes differ by two or more, the
\* step of the loop appends the next player to the team with fewer members,
\* whatever the strengths of the two teams are.
C18_SoftThrottle ==
    [][Throttled =>
          /\ remainingPlayers' = Tail(remainingPlayers)
          /\ IF Len(whiteTeam) < Len(blackTeam) THEN DealtToWhite ELSE DealtToBlack]_vars

\* C18 witness: the sizes differ by two, neither team is full, and the team
\* with fewer members is the stronger one, the one the strength rule would
\* have passed over.
C18_Witness ==
    /\ Throttled
    /\ Len(whiteTeam) < Len(blackTeam)
    /\ ~WhiteNotStronger(whiteTeam, blackTeam)

(***************************************************************************)
(* C19.  The strength rule of the greedy loop.                             *)
(***************************************************************************)
\* Ten times the composite strength, sum overall + 0.8 * sum offense
\* + 0.8 * sum defense + 0.6 * sum ballHandling, as an integer.
TenComposites(team) ==
    10 * SumOf(team, "overallSkill") + 8 * SumOf(team, "offenseSkill")
        + 8 * SumOf(team, "defenseSkill") + 6 * SumOf(team, "ballHandlingSkill")

\* composite(a) / max(1, size(a)) <= composite(b) / max(1, size(b)), compared
\* as fractions.
NormalizedLeq(a, b) ==
    TenComposites(a) * Max(1, Len(b)) <= TenComposites(b) * Max(1, Len(a))

NormalCase == Dealing /\ Abs(Len(whiteTeam) - Len(blackTeam)) < 2

\* C19 as stated: when neither team is full and the sizes differ by less than
\* two, the step of the loop appends the next player to the team with the
\* lower size-normalized composite strength, and to whiteTeam when the two
\* values are equal.
C19_AsStated ==
    [][NormalCase =>
          IF NormalizedLeq(whiteTeam, blackTeam) THEN DealtToWhite ELSE DealtToBlack]_vars

(***************************************************************************)
(* C20.  The order the players are processed in.                           *)
(***************************************************************************)
\* The place of player p in the sequence s of players.
IndexIn(s, p) == CHOOSE i \in 1..Len(s) : s[i] = p

\* Non-increasing overallSkill, equal skills in the order of goingPlayers.
InProcessingOrder(s) ==
    \A i, j \in 1..Len(s) :
        i < j =>
            \/ s[i].overallSkill > s[j].overallSkill
            \/ /\ s[i].overallSkill = s[j].overallSkill
               /\ IndexIn(goingPlayers, s[i]) < IndexIn(goingPlayers, s[j])

Sorted == pc \in {"planSizes", "seed", "greedy"} /\ Len(sortedPlayers) >= 2

\* C20: the players are ranked by non-increasing overallSkill with equal
\* skills in their input order; the seeds are the first two of the ranking,
\* the loop deals the following ones one by one in that order (the second
\* sort leaves the remaining players as they were), and the bench is the
\* rest of the ranking in the same order.
C20_ProcessingOrder ==
    Sorted =>
        /\ Len(sortedPlayers) = Len(goingPlayers)
        /\ Range(sortedPlayers) = Range(goingPlayers)
        /\ InProcessingOrder(sortedPlayers)
        /\ pc = "greedy" =>
              LET dealt == Len(whiteTeam) + Len(blackTeam)
                  active == playersPerTeam1 + playersPerTeam2
              IN  /\ Range(whiteTeam) \cup Range(blackTeam)
                        = Range(SliceTo(sortedPlayers, dealt))
                  /\ remainingPlayers = SubSeq(sortedPlayers, dealt + 1, active)
                  /\ benchPlayers = SliceFrom(sortedPlayers, active)
                  /\ InProcessingOrder(whiteTeam)
                  /\ InProcessingOrder(blackTeam)
                  /\ InProcessingOrder(benchPlayers)

\* C20 witness: the loop is dealing a ranking that differs from the input
\* order; the next two players to deal have the same overallSkill, and so
\* have two benched players.
C20_Witness ==
    /\ pc = "greedy"
    /\ sortedPlayers # goingPlayers
    /\ Len(whiteTeam) + Len(blackTeam) > 2
    /\ Len(remainingPlayers) >= 2
    /\ remainingPlayers[1].overallSkill = remainingPlayers[2].overallSkill
    /\ Len(benchPlayers) >= 2
    /\ benchPlayers[1].overallSkill = benchPlayers[2].overallSkill

(***************************************************************************)
(* C21.  The moves of the repair pass.                                     *)
(***************************************************************************)
UndersizeBlocks == {"underWhite", "underBlack"}
OverflowBlocks == {"overWhite", "overBlack"}

\* One player p leaves from and is appended to to.
MovedOne(from, to, fromAfter, toAfter, p) ==
    /\ p \in Range(from)
    /\ toAfter = Append(to, p)
    /\ Len(fromAfter) = Len(from) - 1
    /\ Range(fromAfter) = Range(from) \ {p}

\* The step moves one member with the lowest, or the highest, overallSkill
\* of the team it is taken from, as the team is before the step.
MovesBoundary(from, to, fromAfter, toAfter, lowest) ==
    \E p \in Range(from) :
        /\ MovedOne(from, to, fromAfter, toAfter, p)
        /\ \A q \in Range(from) :
               IF lowest THEN p.overallSkill <= q.overallSkill
               ELSE p.overallSkill >= q.overallSkill

RepairMoveAsOrdered ==
    /\ moves' # moves =>
          /\ phase' = phase
          /\ phase = "underWhite" =>
                /\ Len(whiteTeam) < playersPerTeam1 /\ Len(blackTeam) > playersPerTeam2
                /\ MovesBoundary(blackTeam, whiteTeam, blackTeam', whiteTeam', TRUE)
          /\ phase = "underBlack" =>
                /\ Len(blackTeam) < playersPerTeam2 /\ Len(whiteTeam) > playersPerTeam1
                /\ MovesBoundary(whiteTeam, blackTeam, whiteTeam', blackTeam', TRUE)
          /\ phase = "overWhite" =>
                /\ Len(whiteTeam) > playersPerTeam1
                /\ MovesBoundary(whiteTeam, blackTeam, whiteTeam', blackTeam', FALSE)
          /\ phase = "overBlack" =>
                /\ Len(blackTeam) > playersPerTeam2
                /\ MovesBoundary(blackTeam, whiteTeam, blackTeam', whiteTeam', FALSE)
    /\ phase \in OverflowBlocks \cup {"done"} => phase' \notin UndersizeBlocks
    /\ phase' \in OverflowBlocks /\ phase \in UndersizeBlocks =>
          ~BlockActive("underWhite", whiteTeam, blackTeam, playersPerTeam1, playersPerTeam2)

\* C21: every move of the repair pass moves one player; in the two undersize
\* blocks it is a member with the lowest overallSkill of the over-full team as
\* that team is at the move, sent to the under-full team; in the two overflow
\* blocks it is a member with the highest overallSkill of the over-full team;
\* and no undersize move follows an overflow block.
C21_RepairMoves == [][RepairMoveAsOrdered]_vars

\* C21 witness: two undersize moves took black's lowest members to white one
\* after the other, and an overflow move out of black is due next.
C21_Witness ==
    /\ InBlock("overBlack")
    /\ moves = 2
    /\ Len(startTeams.white) + 2 = playersPerTeam1
    /\ \E i, j \in 1..Len(startTeams.black) :
           startTeams.black[i].overallSkill < startTeams.black[j].overallSkill /\ i > j

(***************************************************************************)
(* C22.  The swap phase of generateBalancedTeams.                          *)
(***************************************************************************)
ClientCount == Len(client.sortedPlayers)

\* The absolute difference of the overallSkill sums of two teams.
SumGap(white, black) == Abs(calculateTeamSkill(white) - calculateTeamSkill(black))

\* Every player of the list is on exactly one of the two teams.
ClientPartition(white, black) ==
    /\ Range(white) \cup Range(black) = Range(client.players)
    /\ Range(white) \cap Range(black) = {}
    /\ Len(white) + Len(black) = Len(client.players)

SwapPhaseSafe ==
    /\ client.swaps <= 1
    /\ client.pc = "scan" \/ client.swaps > 0 =>
          /\ ClientCount % 2 = 1
          /\ Abs(client.whiteTeamSkill - client.blackTeamSkill) > 1
          /\ client.i \in (ClientCount \div 3)..(2 * (ClientCount \div 3))
    /\ client.pc = "scan" =>
          /\ SumGap(client.whiteTeam, client.blackTeam) > 1
          /\ ClientPartition(client.whiteTeam, client.blackTeam)

SwapStep ==
    client.pc = "scan" /\ client'.pc = "scan" => client'.i = client.i + 1

SwapAsDescribed ==
    client'.whiteTeam # client.whiteTeam /\ client.pc # "draft" =>
        LET whitePlayer == client.sortedPlayers[client.i + 1]
            blackPlayer == client.sortedPlayers[client.i + 2]
        IN  /\ client.pc = "scan"
            /\ client.i \in (ClientCount \div 3)..(2 * (ClientCount \div 3) - 1)
            /\ client'.swaps = client.swaps + 1
            /\ whitePlayer \in Range(client.whiteTeam)
            /\ blackPlayer \in Range(client.blackTeam)
            /\ Range(client'.whiteTeam)
                  = (Range(client.whiteTeam) \ {whitePlayer}) \cup {blackPlayer}
            /\ Range(client'.blackTeam)
                  = (Range(client.blackTeam) \ {blackPlayer}) \cup {whitePlayer}
            /\ Len(client'.whiteTeam) = Len(client.whiteTeam)
            /\ Len(client'.blackTeam) = Len(client.blackTeam)
            /\ SumGap(client'.whiteTeam, client'.blackTeam)
                  < SumGap(client.whiteTeam, client.blackTeam)
            /\ ClientPartition(client'.whiteTeam, client'.blackTeam)

\* C22: the scan is entered only for an odd number of players whose sums
\* differ by more than 1; i runs from floor(n/3) upwards by one and stays
\* below 2*floor(n/3); at most one swap is made, of sorted player i on white
\* with sorted player i+1 on black, and only when it makes the difference of
\* the sums strictly smaller; the swap keeps both sizes and leaves every
\* player on exactly one team.
C22_SwapPhase == []SwapPhaseSafe /\ [][SwapStep /\ SwapAsDescribed]_vars

\* C22 witness: seven players were drafted four against three, one swap
\* was made in the scan, and the teams were returned.
C22_Witness ==
    /\ client.pc = "returned"
    /\ client.swaps = 1
    /\ ClientCount = 7
    /\ Len(client.result.whiteTeam) = 4
    /\ client.sortedPlayers[client.i + 2] \in Range(client.result.whiteTeam)

(***************************************************************************)
(* C23.  Every player of the list is drafted.                              *)
(***************************************************************************)
\* C23: called with a list of two or more players, generateBalancedTeams
\* returns every player on exactly one of whiteTeam and blackTeam; called
\* with no list or fewer than two players it returns two empty teams.
C23_DraftComplete ==
    client.pc = "returned" =>
        IF client.missing \/ Len(client.players) < 2
        THEN client.result = [whiteTeam |-> <<>>, blackTeam |-> <<>>]
        ELSE /\ ClientPartition(client.result.whiteTeam, client.result.blackTeam)
             /\ Cardinality(Range(client.result.whiteTeam)) = Len(client.result.whiteTeam)
             /\ Cardinality(Range(client.result.blackTeam)) = Len(client.result.blackTeam)

\* C23 witness: a full list that was not given in ranking order was
\* returned on two teams after a swap.
C23_Witness ==
    /\ client.pc = "returned"
    /\ Len(client.players) = MaxClientPlayers
    /\ client.swaps = 1
    /\ client.players # client.sortedPlayers
    /\ client.players[1].overallSkill < client.players[2].overallSkill

(***************************************************************************)
(* C25.  The sizes of the client's teams.                                  *)
(***************************************************************************)
\* C25 as stated: for a list of two or more players the returned teams
\* differ in size by at most 1.
C25_AsStated ==
    client.pc = "returned" /\ ~client.missing /\ Len(client.players) >= 2 =>
        Abs(Len(client.result.whiteTeam) - Len(client.result.blackTeam)) <= 1

(***************************************************************************)
(* C24.  The size gap during the greedy loop.                              *)
(***************************************************************************)
\* C24: from the seeding to the end of the greedy loop the two teams differ
\* in size by at most 2, after every assignment.
C24_SizeGap ==
    pc = "greedy" => Abs(Len(whiteTeam) - Len(blackTeam)) <= 2

\* C24 witness: the loop has dealt players, black is two players larger
\* than white and still not the stronger team.
C24_Witness ==
    /\ InLoop
    /\ Len(whiteTeam) + Len(blackTeam) > 2
    /\ Len(blackTeam) - Len(whiteTeam) = 2
    /\ WhiteNotStronger(blackTeam, whiteTeam)
    /\ blackTeam[Len(blackTeam)].overallSkill < whiteTeam[1].overallSkill

(***************************************************************************)
(* C26.  The roster behind the minimum check.                              *)
(***************************************************************************)
\* C26 as stated: when generateTeams has passed its check of at least 8 and
\* returns, the players it has partitioned are as many as the ids it
\* counted, at least 8 distinct ones, and every entry of the returned
\* whiteTeam and blackTeam is an attending player.
C26_AsStated ==
    pc = "updateGame" =>
        LET all == teams.whiteTeam \o teams.blackTeam \o teams.benchPlayers
        IN  /\ Len(all) = Len(playerIds)
            /\ Cardinality(Range(all)) >= MinRegistered
            /\ Range(teams.whiteTeam) \cup Range(teams.blackTeam) \subseteq AttendingPlayers

(***************************************************************************)
(* C27.  One registration per game and player.                             *)
(***************************************************************************)
\* The registration rows of the player for the game.
RowsOf(gameId, playerId) ==
    {k \in 1..Len(registrations) :
        registrations[k].gameId = gameId /\ registrations[k].playerId = playerId}

\* C27 as stated: under every interleaving of registerPlayer and
\* unregisterPlayer calls, started with at most one row per game and player,
\* there is never more than one row for the same game and player, and no
\* player is counted twice among the going votes of the game.
C27_AsStated ==
    /\ \A playerId \in RegPlayers : Cardinality(RowsOf(1, playerId)) <= 1
    /\ LET ids == GoingPlayerIds(registrations, 1)
       IN  Cardinality(Range(ids)) = Len(ids)

\* ---------------------------------------------------------------------------
\* C28  Result recording is idempotent
\* ---------------------------------------------------------------------------

\* Every PATCH request that was sent has been answered, and one was sent.
Recorded ==
    /\ Quiet
    /\ \E p \in Patchers : res.patches[p].pc = "done"

\* The player ids of the game's three stored lists.
ListedIds == game.whiteTeam \o game.blackTeam \o game.benchPlayers

ResultsOf(playerId) ==
    {k \in 1..Len(res.gameResults) : res.gameResults[k].playerId = playerId}

\* C28: for a played game with scores and stored teams, once all the
\* invocations of recordGameResults have completed (the one inside updateGame
\* and the one of the PATCH route, of one request or of two interleaved),
\* game_results holds exactly one row per player id of the game's whiteTeam,
\* blackTeam and benchPlayers, and no other row.
C28_AsStated ==
    (/\ Recorded
     /\ res.wasPlayed
     /\ res.scores # <<>>
     /\ ~res.reset
     /\ Len(game.whiteTeam) + Len(game.blackTeam) > 0)
    => /\ \A k \in 1..Len(ListedIds) : Cardinality(ResultsOf(ListedIds[k])) = 1
       /\ \A k \in 1..Len(res.gameResults) :
             \E j \in 1..Len(ListedIds) : ListedIds[j] = res.gameResults[k].playerId

\* The same of a game only one request ever updated: the two sequential
\* invocations of that request leave one row per listed player.
C28_Sequential ==
    (/\ Recorded
     /\ \E p \in Patchers : res.patches[p].pc = "idle"
     /\ ~res.reset
     /\ Len(game.whiteTeam) + Len(game.blackTeam) > 0)
    => /\ \A k \in 1..Len(ListedIds) : Cardinality(ResultsOf(ListedIds[k])) = 1
       /\ \A k \in 1..Len(res.gameResults) :
             \E j \in 1..Len(ListedIds) : ListedIds[j] = res.gameResults[k].playerId

\* ---------------------------------------------------------------------------
\* C29  Team reconstruction round trip
\* ---------------------------------------------------------------------------

Listed(ids, playerId) == \E k \in 1..Len(ids) : ids[k] = playerId

\* The answer puts the player of every result row on the team of the row.
OnRecordedTeam(answer, results) ==
    \A k \in 1..Len(results) :
        LET result == results[k]
        IN  /\ Listed(answer.whiteTeam, result.playerId) <=> result.team = "white"
            /\ Listed(answer.blackTeam, result.playerId) <=> result.team = "black"

\* GET /api/games/:id/teams answers for an archived, played game whose stored
\* team lists are empty and whose results were recorded.
Reconstructs ==
    /\ ~res.asked
    /\ res'.asked
    /\ res.isArchived
    /\ res.wasPlayed
    /\ Len(processTeamIds(res.teamsNull, game.whiteTeam)) = 0
    /\ Len(processTeamIds(res.teamsNull, game.blackTeam)) = 0
    /\ Len(res.gameResults) > 0

\* C29: for an archived, played game whose stored team lists are empty, the
\* teams GET /api/games/:id/teams returns put each player on the team
\* recordGameResults recorded for them: 'white' rows on whiteTeam, 'black'
\* rows on blackTeam, bench rows on neither, for every score, draws included.
C29_AsStated ==
    [][Reconstructs => OnRecordedTeam(res'.teamsResponse, res.gameResults)]_vars

\* ---------------------------------------------------------------------------
\* C30  recordGameResults terminates
\* ---------------------------------------------------------------------------

\* The statements of recordGameResults in the order a call passes them.
Phase(at) ==
    CASE at = "getGame" -> 1
      [] at = "generate" -> 2
      [] at = "delete" -> 3
      [] at = "insert" -> 4
      [] OTHER -> 0

\* No call is deeper than the retry, generateTeams is called by the outer
\* call only (a concurrent request may have stored teams meanwhile), and a
\* call that is inserting has a row to insert.
RecursionBounded ==
    \A p \in Patchers :
        LET rec == res.patches[p].rec
        IN  /\ rec.depth <= 2
            /\ rec.pc = "generate" => rec.depth = 1
            /\ rec.pc = "insert" => Len(rec.todo) > 0
            /\ res.patches[p].pc \in {"inner", "route"} => Phase(rec.pc) > 0

\* The call is further on: deeper, or at a later statement of the same
\* depth, or with fewer rows left to insert.
Later(before, after) ==
    \/ after.depth > before.depth
    \/ /\ after.depth = before.depth
       /\ Phase(after.pc) > Phase(before.pc)
    \/ /\ after.depth = before.depth
       /\ after.pc = "insert"
       /\ before.pc = "insert"
       /\ Len(after.todo) < Len(before.todo)

\* Every step of a call in flight either returns it or takes it further on.
CallAdvances ==
    \A p \in Patchers :
        (/\ res.patches[p].pc \in {"inner", "route"}
         /\ res'.patches[p] # res.patches[p])
        => \/ res'.patches[p].pc # res.patches[p].pc
           \/ Later(res.patches[p].rec, res'.patches[p].rec)

\* C30: recordGameResults terminates. A played game without stored teams
\* makes it call generateTeams and then itself at most once more: the
\* recursion depth never exceeds 2, the retry does not generate again, and
\* every step of a call returns it or takes it further on in an order that
\* has no infinite ascent, whether generateTeams succeeds or throws.
C30_Terminates == []RecursionBounded /\ [][CallAdvances]_vars

\* The retry after a successful generateTeams is about to insert its last
\* row from the freshly stored teams and return.
C30_Witness ==
    \E p \in Patchers :
        /\ InRecord(p, "insert")
        /\ res.patches[p].rec.depth = 2
        /\ Len(res.patches[p].rec.todo) = 1
        /\ Len(res.gameResults) > 0

\* A call returned because generateTeams threw: the game is played, has
\* still no teams and no results.
C30_Thrown ==
    /\ \E p \in Patchers : res.patches[p].pc = "done"
    /\ res.wasPlayed
    /\ res.teamsNull
    /\ Len(res.gameResults) = 0

====
